---- MODULE Spec2Model ----
(***************************************************************************)
(* The HTTP response caching subsystem of the CMS backend:                 *)
(*   InMemoryCache (middleware/cache.go, held in performance.go),          *)
(*   RedisCache, CacheManager, generateRedisCacheKey and                   *)
(*   RedisCacheMiddleware (middleware/redis_cache.go).                     *)
(*                                                                         *)
(* Strings are sequences of one-character strings, so that                 *)
(* strings.Contains, concatenation and Redis glob matching are computed.   *)
(* Two symbols stand for bytes that matter to encoding/json: "xFF" is the  *)
(* raw byte 0xFF (never valid UTF-8) and "uFFFD" is the encoding of the    *)
(* Unicode replacement rune.  Time is a counter of instants.               *)
(***************************************************************************)
EXTENDS Integers, Sequences, FiniteSets, TLC

VARIABLES
    cacheManager,   \* the package variable cacheManager (redis_cache.go:324)
    items,          \* InMemoryCache.items of the manager's in-memory store
    rdb,            \* the Redis server's keyspace: full key -> [val, exp]
    stats,          \* RedisCache.stats
    now,            \* the clock, time.Now()
    steps,          \* how many steps have been taken since construction
    last,           \* the last call made and what it returned (observation)
    live,           \* per key, the item of the last Manager Set that returned nil
    resp,           \* the last request served by the middleware, and its response
    run,            \* the requests served since the cache was last cleared
    flight,         \* the database, the requests in progress on the instances
                    \* and the write handler in progress
    gets,           \* RedisCache.Get calls made since the counters were last reset
    health,         \* what CacheHealth last answered
    mutex,          \* InMemoryCache.mutex
    goroutines      \* the goroutines calling a store's methods, and the sweep

vars == <<cacheManager, items, rdb, stats, now, steps, last, live, resp, run,
          flight, gets, health, mutex, goroutines>>

-----------------------------------------------------------------------------
(* Bounds of the model *)

\* the number of steps (calls on the manager, sweeps, clock ticks) explored
MaxSteps == 3

\* steps of a run of middleware requests; requests counted after a clear
MaxMwSteps == 2
MaxRun == 5

\* requests started and posts committed while instances run side by side
MaxGets == 3
MaxCommits == 2

\* calls made on the RedisCache itself
MaxCalls == 5

\* the largest count of hits, and of misses, CacheHealth is called with
MaxLookups == 102

\* calls started by the goroutines on the InMemoryCache, sweeps and ticks of
\* the clock included
MaxOps == 3

\* write handlers run
MaxWrites == 2

\* calls made on the RedisCaches that share one server
MaxShared == 3

\* Gets started, Sets and ticks of the clock while two goroutines call
\* RedisCache.Get side by side
MaxEvents == 5

\* the ttl the middleware is configured with
MwTTL == 1

\* The Redis server stamps a key's expiry when the SET arrives, which is the
\* instant the client computed ExpiresAt or a later one.
ServerLag == {0, 1}

-----------------------------------------------------------------------------
(* Strings *)

\* strings.Contains(s, sub)
Contains(s, sub) ==
    \E i \in 0..(Len(s) - Len(sub)) : SubSeq(s, i + 1, i + Len(sub)) = sub

\* Redis' KEYS pattern matching (stringmatchlen): '*' matches any run of
\* characters, '?' exactly one character, any other character itself.
RECURSIVE GlobMatch(_, _)
GlobMatch(p, s) ==
    IF p = <<>> THEN s = <<>>
    ELSE IF Head(p) = "*"
         THEN GlobMatch(Tail(p), s) \/ (s # <<>> /\ GlobMatch(p, Tail(s)))
    ELSE IF s = <<>> THEN FALSE
    ELSE IF Head(p) = "?" THEN GlobMatch(Tail(p), Tail(s))
    ELSE Head(p) = Head(s) /\ GlobMatch(Tail(p), Tail(s))

\* os.Getenv("REDIS_PREFIX"), the namespace prepended to every Redis key
Prefix == <<"c", ":">>

-----------------------------------------------------------------------------
(* CacheItem and its JSON encoding *)

EmptyMap == [h \in {} |-> <<>>]

\* the nil *CacheItem returned beside found = false
NoItem == [Data |-> <<>>, Headers |-> EmptyMap, ExpiresAt |-> 0]

CacheItem(data, headers, expiresAt) ==
    [Data |-> data, Headers |-> headers, ExpiresAt |-> expiresAt]

\* encoding/json coerces a string to valid UTF-8: every invalid byte becomes
\* the replacement rune.
ToValidUTF8(s) == [i \in 1..Len(s) |-> IF s[i] = "xFF" THEN "uFFFD" ELSE s[i]]

\* encoding/base64 (StdEncoding), the JSON form of a []byte: three bytes make
\* four sextets; 64 is the padding character '='.
RECURSIVE Base64Encode(_)
Base64Encode(b) ==
    IF b = <<>> THEN <<>>
    ELSE IF Len(b) = 1
         THEN <<b[1] \div 4, (b[1] % 4) * 16, 64, 64>>
    ELSE IF Len(b) = 2
         THEN <<b[1] \div 4, (b[1] % 4) * 16 + (b[2] \div 16),
                (b[2] % 16) * 4, 64>>
    ELSE <<b[1] \div 4, (b[1] % 4) * 16 + (b[2] \div 16),
           (b[2] % 16) * 4 + (b[3] \div 64), b[3] % 64>>
         \o Base64Encode(SubSeq(b, 4, Len(b)))

RECURSIVE Base64Decode(_)
Base64Decode(e) ==
    IF e = <<>> THEN <<>>
    ELSE LET b1 == e[1] * 4 + (e[2] \div 16)
             b2 == (e[2] % 16) * 16 + (e[3] \div 4)
             b3 == (e[3] % 4) * 64 + e[4]
         IN  IF e[3] = 64 THEN <<b1>>
             ELSE IF e[4] = 64 THEN <<b1, b2>>
             ELSE <<b1, b2, b3>> \o Base64Decode(SubSeq(e, 5, Len(e)))

\* json.Marshal(item): Data in base64, header values as JSON strings,
\* ExpiresAt in RFC 3339 with nanoseconds (which keeps the instant).
JsonMarshal(item) ==
    [data    |-> Base64Encode(item.Data),
     headers |-> [h \in DOMAIN item.Headers |-> ToValidUTF8(item.Headers[h])],
     expires |-> item.ExpiresAt]

\* a value under a cache key that is not the JSON of a CacheItem
Malformed == [raw |-> <<"{">>]

\* json.Unmarshal([]byte(data), &item)
JsonUnmarshal(val) ==
    IF "raw" \in DOMAIN val THEN [ok |-> FALSE, item |-> NoItem]
    ELSE [ok   |-> TRUE,
          item |-> CacheItem(Base64Decode(val.data), val.headers, val.expires)]

-----------------------------------------------------------------------------
(* InMemoryCache *)

Restrict(m, keep) == [k \in keep |-> m[k]]

\* InMemoryCache.Get with the expiry test dropped
IMGet_NoExpiry(m, key, t) ==
    IF key \notin DOMAIN m THEN [found |-> FALSE, item |-> NoItem]
    ELSE [found |-> TRUE, item |-> m[key]]

\* InMemoryCache.Get
IMGet(m, key, t) ==
    IF key \notin DOMAIN m THEN [found |-> FALSE, item |-> NoItem]
    ELSE IF t > m[key].ExpiresAt THEN [found |-> FALSE, item |-> NoItem]
    ELSE [found |-> TRUE, item |-> m[key]]

\* InMemoryCache.Set stamping the item with the ttl alone, not now + ttl
IMSet_TtlAsInstant(m, key, data, headers, ttl, t) ==
    [items |-> [k \in DOMAIN m \cup {key} |->
                   IF k = key THEN CacheItem(data, headers, ttl) ELSE m[k]],
     err   |-> "nil"]

\* a Set that overwrites the data and the expiry of an entry and leaves the
\* headers it had
IMSet_KeepsHeaders(m, key, data, headers, ttl, t) ==
    [items |-> [k \in DOMAIN m \cup {key} |->
                   IF k = key
                   THEN CacheItem(data,
                                  IF key \in DOMAIN m THEN m[key].Headers
                                  ELSE headers,
                                  t + ttl)
                   ELSE m[k]],
     err   |-> "nil"]

\* InMemoryCache.Set
IMSet(m, key, data, headers, ttl, t) ==
    [items |-> [k \in DOMAIN m \cup {key} |->
                   IF k = key THEN CacheItem(data, headers, t + ttl) ELSE m[k]],
     err   |-> "nil"]

\* InMemoryCache.Delete that removes nothing
IMDelete_Keeps(m, key) == [items |-> m, err |-> "nil"]

\* InMemoryCache.Delete
IMDelete(m, key) ==
    [items |-> Restrict(m, DOMAIN m \ {key}), err |-> "nil"]

\* InMemoryCache.Clear
IMClear(m) == [items |-> Restrict(m, {}), err |-> "nil"]

\* InMemoryCache.InvalidatePattern
IMInvalidatePattern(m, pattern) ==
    [items |-> Restrict(m, {k \in DOMAIN m : ~Contains(k, pattern)}),
     err   |-> "nil"]

\* a pass that also removes the entries expiring at this very instant
IMCleanup_AtOrAfter(m, t) == Restrict(m, {k \in DOMAIN m : ~(t >= m[k].ExpiresAt)})

\* one pass of InMemoryCache.cleanup
IMCleanup(m, t) == Restrict(m, {k \in DOMAIN m : ~(t > m[k].ExpiresAt)})

ZeroRatio == [num |-> 0, den |-> 1]

\* InMemoryCache.GetStats
IMGetStats(m) ==
    [Hits |-> 0, Misses |-> 0, HitRatio |-> ZeroRatio,
     KeyCount |-> Cardinality(DOMAIN m), CacheType |-> "in_memory"]

-----------------------------------------------------------------------------
(* RedisCache.  Every call to the server takes a flag: TRUE when the call
   goes through, FALSE when it fails (timeout, connection refused). *)

NewStats == [Hits |-> 0, Misses |-> 0, HitRatio |-> ZeroRatio,
             KeyCount |-> 0, CacheType |-> "redis"]

\* a store that leaves its misses uncounted
Miss_Uncounted(st) == st

Miss(st) == [st EXCEPT !.Misses = @ + 1]

\* a hit that is counted as a miss as well
Hit_AlsoMiss(st) == [st EXCEPT !.Hits = @ + 1, !.Misses = @ + 1]

Hit(st) == [st EXCEPT !.Hits = @ + 1]

\* the server's KEYS command
RedisKeys(db, pattern) == {fk \in DOMAIN db : GlobMatch(pattern, fk)}

\* the server's active and passive expiry: a key is gone once the server's
\* clock is past its expiry
RedisExpire(db, t) == Restrict(db, {fk \in DOMAIN db : ~(t > db[fk].exp)})

\* a Delete that reports a failed DEL call as success
RCDelete_Swallows(db, key, net) ==
    IF ~net THEN [rdb |-> db, err |-> "nil"]
    ELSE [rdb |-> Restrict(db, DOMAIN db \ {Prefix \o key}), err |-> "nil"]

\* RedisCache.Delete
RCDelete(db, key, net) ==
    IF ~net THEN [rdb |-> db, err |-> "failed to delete cache item"]
    ELSE [rdb |-> Restrict(db, DOMAIN db \ {Prefix \o key}), err |-> "nil"]

\* a Get that takes a failed GET call for a found, empty item
RCGet_ErrorIsFound(db, st, key, t, net) ==
    [rdb |-> db, stats |-> Hit(st), found |-> TRUE, del |-> "",
     item |-> IF net[1] /\ Prefix \o key \in DOMAIN db
              THEN JsonUnmarshal(db[Prefix \o key].val).item ELSE NoItem]

\* a Get that leaves the expired item it read on the server
RCGet_KeepsExpired(db, st, key, t, net) ==
    LET fullKey == Prefix \o key
        miss == [rdb |-> db, stats |-> Miss(st), found |-> FALSE,
                 item |-> NoItem, del |-> ""]
    IN  IF ~net[1] THEN miss
        ELSE IF fullKey \notin DOMAIN db THEN miss
        ELSE LET u == JsonUnmarshal(db[fullKey].val)
             IN  IF ~u.ok THEN miss
                 ELSE IF t > u.item.ExpiresAt THEN miss
                 ELSE [rdb |-> db, stats |-> Hit(st), del |-> "",
                       found |-> TRUE, item |-> u.item]

\* RedisCache.Get; net[1] is the GET call, net[2] the DEL of an expired item;
\* del is the error of the Delete it issued ("" when it issued none), which
\* Get drops
RCGet(db, st, key, t, net) ==
    LET fullKey == Prefix \o key
        miss == [rdb |-> db, stats |-> Miss(st), found |-> FALSE,
                 item |-> NoItem, del |-> ""]
    IN  IF ~net[1] THEN miss
        ELSE IF fullKey \notin DOMAIN db THEN miss
        ELSE LET u == JsonUnmarshal(db[fullKey].val)
             IN  IF ~u.ok THEN miss
                 ELSE IF t > u.item.ExpiresAt
                      THEN [miss EXCEPT !.rdb = RCDelete(db, key, net[2]).rdb,
                                        !.del = RCDelete(db, key, net[2]).err]
                 ELSE [rdb |-> db, stats |-> Hit(st), del |-> "",
                       found |-> TRUE, item |-> u.item]

\* RedisCache.Set; lag is how much later than time.Now() the server stamps
\* the key's expiry
RCSet(db, key, data, headers, ttl, t, lag, net) ==
    LET fullKey == Prefix \o key
        jsonData == JsonMarshal(CacheItem(data, headers, t + ttl))
    IN  IF ~net THEN [rdb |-> db, err |-> "failed to set cache item"]
        ELSE [rdb |-> [fk \in DOMAIN db \cup {fullKey} |->
                          IF fk = fullKey
                          THEN [val |-> jsonData, exp |-> t + lag + ttl]
                          ELSE db[fk]],
              err |-> "nil"]

\* RedisCache.Clear; net[1] is the KEYS call, net[2] the DEL call
RCClear(db, net) ==
    LET keys == RedisKeys(db, Prefix \o <<"*">>)
    IN  IF ~net[1] THEN [rdb |-> db, err |-> "failed to get keys"]
        ELSE IF keys = {} THEN [rdb |-> db, err |-> "nil"]
        ELSE IF ~net[2] THEN [rdb |-> db, err |-> "failed to delete keys"]
        ELSE [rdb |-> Restrict(db, DOMAIN db \ keys), err |-> "nil"]

\* RedisCache.InvalidatePattern
RCInvalidatePattern(db, pattern, net) ==
    LET searchPattern == Prefix \o <<"*">> \o pattern \o <<"*">>
        keys == RedisKeys(db, searchPattern)
    IN  IF ~net[1] THEN [rdb |-> db, err |-> "failed to get keys for pattern"]
        ELSE IF keys = {} THEN [rdb |-> db, err |-> "nil"]
        ELSE IF ~net[2]
             THEN [rdb |-> db, err |-> "failed to delete keys for pattern"]
        ELSE [rdb |-> Restrict(db, DOMAIN db \ keys), err |-> "nil"]

\* RedisCache.GetStats: the stats it stores and returns
RCGetStats(db, st, net) ==
    LET keys == RedisKeys(db, Prefix \o <<"*">>)
        counted == IF net THEN [st EXCEPT !.KeyCount = Cardinality(keys)] ELSE st
        total == st.Hits + st.Misses
    IN  IF total > 0
        THEN [counted EXCEPT !.HitRatio = [num |-> st.Hits, den |-> total]]
        ELSE counted

\* a ResetStats that leaves HitRatio as it was
RCResetStats_KeepsRatio(st) ==
    [st EXCEPT !.Hits = 0, !.Misses = 0, !.KeyCount = 0]

\* RedisCache.ResetStats
RCResetStats(st) ==
    [st EXCEPT !.Hits = 0, !.Misses = 0, !.HitRatio = ZeroRatio, !.KeyCount = 0]

-----------------------------------------------------------------------------
(* CacheManager.  w is the storage the manager's two stores work on:
   [items, rdb, stats].  primary is "redis" or "in_memory"; the fallback is
   always the InMemoryCache, and in the second case primary is that same
   instance. *)

NilManager ==
    [set |-> FALSE, primary |-> "none", fallback |-> "none", useFallback |-> FALSE]

\* NewCacheManager without "primary = fallback" in the failure branch
NewCacheManager_KeepsRedis(pingOk) ==
    [set |-> TRUE, primary |-> "redis", fallback |-> "in_memory",
     useFallback |-> ~pingOk]

\* NewCacheManager without "useFallback = true" in the failure branch
NewCacheManager_FlagUnset(pingOk) ==
    [set |-> TRUE, primary |-> IF pingOk THEN "redis" ELSE "in_memory",
     fallback |-> "in_memory", useFallback |-> FALSE]

\* NewCacheManager; pingOk is the outcome of NewRedisCache's Ping
NewCacheManager(pingOk) ==
    IF ~pingOk
    THEN [set |-> TRUE, primary |-> "in_memory", fallback |-> "in_memory",
          useFallback |-> TRUE]
    ELSE [set |-> TRUE, primary |-> "redis", fallback |-> "in_memory",
          useFallback |-> FALSE]

\* cm.primary.Get(key)
PrimaryGet(cm, w, key, t, net) ==
    IF cm.primary = "redis"
    THEN LET r == RCGet(w.rdb, w.stats, key, t, net)
         IN  [w |-> [w EXCEPT !.rdb = r.rdb, !.stats = r.stats],
              found |-> r.found, item |-> r.item]
    ELSE LET r == IMGet(w.items, key, t)
         IN  [w |-> w, found |-> r.found, item |-> r.item]

\* a Get that reads the fallback after every miss of the primary
CMGet_ReadsFallback(cm, w, key, t, net) ==
    LET p == PrimaryGet(cm, w, key, t, net)
    IN  IF p.found THEN p
        ELSE LET f == IMGet(p.w.items, key, t)
             IN  [w |-> p.w, found |-> f.found, item |-> f.item]

\* CacheManager.Get
CMGet(cm, w, key, t, net) ==
    LET p == PrimaryGet(cm, w, key, t, net)
    IN  IF p.found THEN p
        ELSE IF ~cm.useFallback
             THEN [w |-> p.w, found |-> FALSE, item |-> NoItem]
        ELSE LET f == IMGet(p.w.items, key, t)
             IN  [w |-> p.w, found |-> f.found, item |-> f.item]

\* cm.primary.Set(key, data, headers, ttl)
PrimarySet(cm, w, key, data, headers, ttl, t, lag, net) ==
    IF cm.primary = "redis"
    THEN LET r == RCSet(w.rdb, key, data, headers, ttl, t, lag, net)
         IN  [w |-> [w EXCEPT !.rdb = r.rdb], err |-> r.err]
    ELSE LET r == IMSet(w.items, key, data, headers, ttl, t)
         IN  [w |-> [w EXCEPT !.items = r.items], err |-> r.err]

\* a Set that writes the fallback but hands back the primary's error
CMSet_PrimaryError(cm, w, key, data, headers, ttl, t, lag, net) ==
    LET p == PrimarySet(cm, w, key, data, headers, ttl, t, lag, net)
    IN  IF p.err # "nil" /\ ~cm.useFallback
        THEN [w |-> [p.w EXCEPT !.items =
                        IMSet(p.w.items, key, data, headers, ttl, t).items],
              err |-> p.err]
        ELSE p

\* CacheManager.Set
CMSet(cm, w, key, data, headers, ttl, t, lag, net) ==
    LET p == PrimarySet(cm, w, key, data, headers, ttl, t, lag, net)
    IN  IF p.err # "nil"
        THEN IF ~cm.useFallback
             THEN LET f == IMSet(p.w.items, key, data, headers, ttl, t)
                  IN  [w |-> [p.w EXCEPT !.items = f.items], err |-> f.err]
             ELSE p
        ELSE [w |-> p.w, err |-> "nil"]

\* cm.primary.Delete(key)
PrimaryDelete(cm, w, key, net) ==
    IF cm.primary = "redis"
    THEN LET r == RCDelete(w.rdb, key, net)
         IN  [w |-> [w EXCEPT !.rdb = r.rdb], err |-> r.err]
    ELSE LET r == IMDelete(w.items, key)
         IN  [w |-> [w EXCEPT !.items = r.items], err |-> r.err]

\* CacheManager.Delete
CMDelete(cm, w, key, net) ==
    LET p == PrimaryDelete(cm, w, key, net)
    IN  IF ~cm.useFallback
        THEN LET f == IMDelete(p.w.items, key)
             IN  [w |-> [p.w EXCEPT !.items = f.items],
                  err |-> IF p.err # "nil" THEN p.err ELSE f.err]
        ELSE p

\* cm.primary.Clear()
PrimaryClear(cm, w, net) ==
    IF cm.primary = "redis"
    THEN LET r == RCClear(w.rdb, net)
         IN  [w |-> [w EXCEPT !.rdb = r.rdb], err |-> r.err]
    ELSE LET r == IMClear(w.items)
         IN  [w |-> [w EXCEPT !.items = r.items], err |-> r.err]

\* a Clear that stops at the primary
CMClear_PrimaryOnly(cm, w, net) == PrimaryClear(cm, w, net)

\* CacheManager.Clear
CMClear(cm, w, net) ==
    LET p == PrimaryClear(cm, w, net)
    IN  IF ~cm.useFallback
        THEN LET f == IMClear(p.w.items)
             IN  [w |-> [p.w EXCEPT !.items = f.items],
                  err |-> IF p.err # "nil" THEN p.err ELSE f.err]
        ELSE p

\* cm.primary.InvalidatePattern(pattern)
PrimaryInvalidatePattern(cm, w, pattern, net) ==
    IF cm.primary = "redis"
    THEN LET r == RCInvalidatePattern(w.rdb, pattern, net)
         IN  [w |-> [w EXCEPT !.rdb = r.rdb], err |-> r.err]
    ELSE LET r == IMInvalidatePattern(w.items, pattern)
         IN  [w |-> [w EXCEPT !.items = r.items], err |-> r.err]

\* CacheManager.InvalidatePattern
CMInvalidatePattern(cm, w, pattern, net) ==
    LET p == PrimaryInvalidatePattern(cm, w, pattern, net)
    IN  IF ~cm.useFallback
        THEN LET f == IMInvalidatePattern(p.w.items, pattern)
             IN  [w |-> [p.w EXCEPT !.items = f.items],
                  err |-> IF p.err # "nil" THEN p.err ELSE f.err]
        ELSE p

\* CacheManager.GetStats
CMGetStats(cm, w, net) ==
    IF cm.primary = "redis"
    THEN LET st == RCGetStats(w.rdb, w.stats, net)
         IN  [w |-> [w EXCEPT !.stats = st], st |-> st]
    ELSE [w |-> w, st |-> IMGetStats(w.items)]

\* CacheManager.ResetStats
CMResetStats(cm, w) ==
    IF cm.primary = "redis"
    THEN [w |-> [w EXCEPT !.stats = RCResetStats(w.stats)], err |-> "nil"]
    ELSE [w |-> w, err |-> "nil"]

-----------------------------------------------------------------------------
(* The functions the controllers call: each tests the manager for nil *)

\* CacheStats{}, and CacheStats{CacheType: "not_initialized"}
ZeroStats ==
    [Hits |-> 0, Misses |-> 0, HitRatio |-> ZeroRatio, KeyCount |-> 0,
     CacheType |-> ""]

NotInitialized == [ZeroStats EXCEPT !.CacheType = "not_initialized"]

ErrNotInitialized == "cache manager not initialized"

\* a GetCacheStats that asks the manager whether there is one or not
CacheStats_Unguarded(cm, w, net) == CMGetStats(cm, w, net)

\* middleware.GetCacheStats()
CacheStats(cm, w, net) ==
    IF ~cm.set THEN [w |-> w, st |-> NotInitialized] ELSE CMGetStats(cm, w, net)

\* middleware.InvalidateCache(pattern)
Invalidated(cm, w, pattern, net) ==
    IF ~cm.set THEN [w |-> w, err |-> ErrNotInitialized]
    ELSE CMInvalidatePattern(cm, w, pattern, net)

\* middleware.ClearAllCache()
Cleared(cm, w, net) ==
    IF ~cm.set THEN [w |-> w, err |-> ErrNotInitialized]
    ELSE CMClear(cm, w, net)

-----------------------------------------------------------------------------
(* The middleware.  A request is [method, path, query, ua]; out is what the
   downstream handler writes when it is run: [status, body, headers]. *)

\* URL.String() of a request URL with a path and a raw query
URLString(path, query) ==
    IF query = <<>> THEN path ELSE path \o <<"?">> \o query

RECURSIVE Join(_)
Join(s) == IF s = <<>> THEN "" ELSE Head(s) \o Join(Tail(s))

\* hex.EncodeToString(md5.Sum(key)): the digest is taken to be free of
\* collisions, and is written as one symbol naming the bytes it digests
Md5Hex(key) == <<"md5(" \o Join(key) \o ")">>

Posts == <<"/", "p", "o", "s", "t", "s">>
Pages == <<"/", "p", "a", "g", "e", "s">>
Media == <<"/", "m", "e", "d", "i", "a">>
Admin == <<"/", "a", "d", "m", "i", "n">>
Auth == <<"/", "a", "u", "t", "h">>

\* a key derivation that looks for "/media" first
generateRedisCacheKey_MediaFirst(req) ==
    LET url == URLString(req.path, req.query)
        resource == IF Contains(url, Media) THEN Tail(Media)
                    ELSE IF Contains(url, Pages) THEN Tail(Pages)
                    ELSE IF Contains(url, Posts) THEN Tail(Posts)
                    ELSE <<>>
        hashStr == Md5Hex(<<req.method, ":">> \o url \o <<":">> \o req.ua)
    IN  IF resource # <<>> THEN resource \o <<":">> \o hashStr ELSE hashStr

generateRedisCacheKey(req) ==
    LET url == URLString(req.path, req.query)
        resource == IF Contains(url, Posts) THEN Tail(Posts)
                    ELSE IF Contains(url, Pages) THEN Tail(Pages)
                    ELSE IF Contains(url, Media) THEN Tail(Media)
                    ELSE <<>>
        key == <<req.method, ":">> \o url \o <<":">> \o req.ua
        hashStr == Md5Hex(key)
    IN  IF resource # <<>> THEN resource \o <<":">> \o hashStr ELSE hashStr

\* c.Next() with the writer untouched: the handler's response as it is
PassThrough(w, out) ==
    [w |-> w, key |-> <<>>, status |-> out.status, body |-> out.body,
     headers |-> out.headers, xcache |-> "", ran |-> TRUE,
     gets |-> 0, sets |-> 0]

\* a middleware that stores no response
Cacheable_Never(out) == FALSE

\* a middleware that stores responses of every status
Cacheable_AnyStatus(out) == Len(out.body) > 0

\* the handler's response is one the middleware stores
Cacheable(out) == out.status >= 200 /\ out.status < 300 /\ Len(out.body) > 0

\* a lookup that stores the item again, with a new expiry, when it hits
Lookup_HitRefreshes(cm, w, req, t, ttl, out, lag, net) ==
    LET cacheKey == generateRedisCacheKey(req)
        g == CMGet(cm, w, cacheKey, t, <<net[1], net[2]>>)
    IN  IF g.found
        THEN [w |-> CMSet(cm, g.w, cacheKey, g.item.Data, g.item.Headers,
                          ttl, t, lag, net[3]).w,
              key |-> cacheKey, status |-> 200,
              body |-> g.item.Data, headers |-> g.item.Headers,
              xcache |-> "HIT", ran |-> FALSE, gets |-> 1, sets |-> 0]
        ELSE IF Cacheable(out)
        THEN LET st == CMSet(cm, g.w, cacheKey, out.body, out.headers,
                             ttl, t, lag, net[3])
             IN  [w |-> st.w, key |-> cacheKey, status |-> out.status,
                  body |-> out.body, headers |-> out.headers,
                  xcache |-> "MISS", ran |-> TRUE, gets |-> 1, sets |-> 1]
        ELSE [w |-> g.w, key |-> cacheKey, status |-> out.status,
              body |-> out.body, headers |-> out.headers,
              xcache |-> "", ran |-> TRUE, gets |-> 1, sets |-> 0]

\* the lookup, and the hit or the miss that follows it.  net[1] and net[2]
\* are the server calls of the Get, net[3] that of the Set
Lookup(cm, w, req, t, ttl, out, lag, net) ==
    LET cacheKey == generateRedisCacheKey(req)
        g == CMGet(cm, w, cacheKey, t, <<net[1], net[2]>>)
    IN  IF g.found
        THEN [w |-> g.w, key |-> cacheKey, status |-> 200,
              body |-> g.item.Data, headers |-> g.item.Headers,
              xcache |-> "HIT", ran |-> FALSE, gets |-> 1, sets |-> 0]
        ELSE IF Cacheable(out)
        THEN LET st == CMSet(cm, g.w, cacheKey, out.body, out.headers,
                             ttl, t, lag, net[3])
             IN  [w |-> st.w, key |-> cacheKey, status |-> out.status,
                  body |-> out.body, headers |-> out.headers,
                  xcache |-> "MISS", ran |-> TRUE, gets |-> 1, sets |-> 1]
        ELSE [w |-> g.w, key |-> cacheKey, status |-> out.status,
              body |-> out.body, headers |-> out.headers,
              xcache |-> "", ran |-> TRUE, gets |-> 1, sets |-> 0]

\* strings.HasPrefix
HasPrefix(str, prefix) ==
    Len(prefix) <= Len(str) /\ SubSeq(str, 1, Len(prefix)) = prefix

\* a middleware that excludes by the start of the path only
Excluded_PrefixOnly(path) == HasPrefix(path, Admin) \/ HasPrefix(path, Auth)

Excluded(path) == Contains(path, Admin) \/ Contains(path, Auth)

\* a middleware that looks up requests of every method
RedisCacheMiddleware_AnyMethod(cm, w, req, t, ttl, out, lag, net) ==
    IF Excluded(req.path) THEN PassThrough(w, out)
    ELSE Lookup(cm, w, req, t, ttl, out, lag, net)

\* a middleware that runs the handler after a hit as well
RedisCacheMiddleware_HitRunsHandler(cm, w, req, t, ttl, out, lag, net) ==
    LET r == IF req.method # "GET" \/ Excluded(req.path) THEN PassThrough(w, out)
             ELSE Lookup(cm, w, req, t, ttl, out, lag, net)
    IN  IF r.xcache = "HIT"
        THEN [r EXCEPT !.ran = TRUE, !.status = out.status, !.body = out.body]
        ELSE r

\* the handler RedisCacheMiddleware(ttl) returns, serving one request
RedisCacheMiddleware(cm, w, req, t, ttl, out, lag, net) ==
    IF req.method # "GET" THEN PassThrough(w, out)
    ELSE IF Excluded(req.path) THEN PassThrough(w, out)
    ELSE Lookup(cm, w, req, t, ttl, out, lag, net)

-----------------------------------------------------------------------------
(* Calls made on the manager, as the tests and the cache controller make
   them, and the passing of time *)

Keys == {<<"a", "b">>, <<"b">>}

Patterns == {<<"a">>, <<"b">>, <<"?">>}

Payloads ==
    {[Data |-> <<1>>, Headers |-> ("Content-Type" :> <<"j">>)],
     [Data |-> <<2, 3>>, Headers |-> ("X-Custom" :> <<"xFF">>)]}

TTLs == {1, 2}

\* how long the caller waits between two calls
Sleeps == {1, 2}

\* the outcomes of a method's two calls to the server: both go through, the
\* first fails, the second fails
Net2 == {<<TRUE, TRUE>>, <<FALSE, FALSE>>, <<TRUE, FALSE>>}

World == [items |-> items, rdb |-> rdb, stats |-> stats]

\* what is kept of the last step: the call made, its key or pattern, the
\* error and the found flag it returned; failed tells whether a call it made
\* to the server failed (kept for the calls made on the RedisCache itself);
\* st is the CacheStats GetCacheStats returned; del is the error of the Delete
\* a Get of the RedisCache issued ("" when it issued none); prefix is the
\* prefix of the RedisCache called
Call(op, key, err, found) ==
    [op |-> op, key |-> key, err |-> err, found |-> found, local |-> FALSE,
     failed |-> FALSE, st |-> ZeroStats, del |-> "", prefix |-> Prefix]

\* the same for a call that removes entries: local tells whether the
\* in-memory store lost any
Removal(op, key, r) ==
    [Call(op, key, r.err, FALSE) EXCEPT !.local = r.w.items # items]

NoCall == Call("none", <<>>, "nil", FALSE)

Store(w) == items' = w.items /\ rdb' = w.rdb /\ stats' = w.stats

\* a step of the constructed manager, counted against a budget
StepWithin(max) == cacheManager.set /\ steps < max /\ steps' = steps + 1

\* the same for a function that may be called before there is a manager
CallWithin(max) == IF cacheManager.set THEN StepWithin(max) ELSE steps' = steps

Step == StepWithin(MaxSteps)

\* no request served (yet, or since the cache was last changed directly)
NoRequest ==
    [n |-> 0, method |-> "", path |-> <<>>, query |-> <<>>, ua |-> <<>>,
     key |-> <<>>, status |-> 0, body |-> <<>>, xcache |-> "", ran |-> FALSE,
     gets |-> 0, sets |-> 0, hadEntry |-> FALSE, at |-> 0,
     getOk |-> FALSE, setOk |-> FALSE, follows |-> "-",
     headers |-> EmptyMap, origin |-> [status |-> 0, body |-> <<>>]]

\* no requests counted: served in all, n of them since the cache was cleared, the
\* first at t0; h0 and m0 the counters they started from; clean while they
\* came within the ttl of the first and the counters were left alone; ok
\* while each had a response the middleware stores and reached the server
NoRun == [active |-> FALSE, n |-> 0, h0 |-> 0, m0 |-> 0, clean |-> FALSE,
          ok |-> FALSE, t0 |-> 0, served |-> 0]

\* the instances behind the shared Redis server
Instances == {1, 2}

\* a request of an instance: where it stands (idle, missed: looked up and not
\* found, handled: the handler has written its response, served), the body
\* of its response as the version of the posts it was computed from, and
\* floor, the newest version whose invalidation had returned when it started
Idle == [pc |-> "idle", body |-> <<>>, xcache |-> "", floor |-> 0]

\* no write handler running.  pc: idle, begun (db.Begin() returned), commit
\* (the mutation went through), invalidate (tx.Commit() returned), respond
\* (the invalidation returned), done (the response is written); committed
\* tells whether tx.Commit() succeeded, invalidations counts the calls of the
\* invalidation wrapper, n the handlers run
NoWrite ==
    [pc |-> "idle", name |-> "", tag |-> <<>>, success |-> 0,
     committed |-> FALSE, invalidations |-> 0, status |-> 0, n |-> 0]

\* nothing written yet: db is the committed version of the posts, write
\* tells whether a commit still waits for its invalidation, invalidated is
\* the newest version whose invalidation has returned
NoFlight ==
    [db |-> 0, write |-> "idle", invalidated |-> 0, started |-> 0,
     get |-> [i \in Instances |-> Idle], handler |-> NoWrite]

\* CacheHealth not called yet
NoHealth == [status |-> "", code |-> 0, cache_type |-> "", hit_ratio |-> ZeroRatio]

\* the goroutines serving requests, and the one NewInMemoryCache starts
Callers == {1, 2}
Sweeper == 3
Goroutines == Callers \cup {Sweeper}

\* the zero sync.RWMutex.  writer is the goroutine that holds the write lock
\* or has announced itself and waits for the readers to leave (0: none),
\* readers hold the read lock, blocked called RLock after a writer announced
\* itself and wait for its Unlock.
Unlocked == [writer |-> 0, readers |-> {}, blocked |-> {}]

\* a goroutine outside the InMemoryCache.  pc: idle, lock (about to call
\* Lock or RLock), wait (called it), in (holds the lock), unlock (has worked
\* on the map, the deferred unlock to come), handler (a request that missed
\* runs its handler).  request tells a call made by the middleware; found and
\* item are what Get is about to return, st what GetStats is; missed and
\* wrote tell that the request's Get missed and its Set was applied.  In a
\* Get of the RedisCache pc is get (about to call the server), del (read an
\* expired item), load and store (the two halves of the increment), and st
\* is the CacheStats the increment read.
Resting ==
    [pc |-> "idle", op |-> "", key |-> <<>>, data |-> <<>>, headers |-> EmptyMap,
     ttl |-> 0, request |-> FALSE, found |-> FALSE, item |-> NoItem,
     st |-> ZeroStats, missed |-> FALSE, wrote |-> FALSE]

NoGoroutines == [g \in Goroutines |-> Resting]

\* the observation a direct call leaves
Observe(call) ==
    /\ last' = call /\ resp' = NoRequest /\ run' = NoRun
    /\ UNCHANGED <<flight, gets, health, mutex, goroutines>>

\* the outcomes of a call to the server: the in-memory store makes none
Net1 == IF cacheManager.primary = "redis" THEN BOOLEAN ELSE {TRUE}
Net == IF cacheManager.primary = "redis" THEN Net2 ELSE {<<TRUE, TRUE>>}
Lags == IF cacheManager.primary = "redis" THEN ServerLag ELSE {0}

\* keys a pattern may remove from a store of either kind
Touches(pattern, k) ==
    Contains(k, pattern) \/ GlobMatch(<<"*">> \o pattern \o <<"*">>, k)

Init ==
    /\ cacheManager = NilManager
    /\ items = EmptyMap
    /\ rdb = EmptyMap
    /\ stats = NewStats
    /\ now = 0
    /\ steps = 0
    /\ last = NoCall
    /\ live = EmptyMap
    /\ resp = NoRequest
    /\ run = NoRun
    /\ flight = NoFlight
    /\ gets = 0
    /\ health = NoHealth
    /\ mutex = Unlocked
    /\ goroutines = NoGoroutines

\* InitializeCache, run once: by RedisCacheMiddleware when cacheManager is nil
InitializeCache(pingOk) ==
    /\ ~cacheManager.set
    /\ cacheManager' = NewCacheManager(pingOk)
    /\ items' = EmptyMap
    /\ stats' = NewStats
    /\ Observe(Call("InitializeCache", <<>>,
                    IF pingOk THEN "nil" ELSE "failed to connect to Redis", FALSE))
    /\ UNCHANGED <<rdb, now, steps, live>>

\* time passes, by d instants; the server drops the keys whose expiry is past
Elapse(d, max) ==
    /\ StepWithin(max)
    /\ now' = now + d
    /\ rdb' = RedisExpire(rdb, now')
    /\ live' = Restrict(live, {k \in DOMAIN live : now' < live[k].item.ExpiresAt})
    /\ last' = Call("Tick", <<>>, "nil", FALSE)
    /\ UNCHANGED <<cacheManager, items, stats, resp, run, flight,
                 gets, health, mutex, goroutines>>

Tick(d) == Elapse(d, MaxSteps)

\* the ticker of InMemoryCache.cleanup fires
Cleanup ==
    /\ Step
    /\ items' = IMCleanup(items, now)
    /\ Observe(Call("cleanup", <<>>, "nil", FALSE))
    /\ UNCHANGED <<cacheManager, rdb, stats, now, live>>

Set(key, pl, ttl, lag, net) ==
    /\ Step
    /\ LET r == CMSet(cacheManager, World, key, pl.Data, pl.Headers, ttl, now, lag, net)
           p == PrimarySet(cacheManager, World, key, pl.Data, pl.Headers, ttl, now, lag, net)
           item == CacheItem(pl.Data, pl.Headers, now + ttl)
       IN  /\ Store(r.w)
           /\ Observe(Call("Set", key, r.err, FALSE))
           /\ live' = IF r.err = "nil"
                      THEN [k \in DOMAIN live \cup {key} |->
                               IF k = key
                               THEN [item |-> item, primaryOk |-> p.err = "nil"]
                               ELSE live[k]]
                      ELSE live
    /\ UNCHANGED <<cacheManager, now>>

Get(key, net) ==
    /\ Step
    /\ LET r == CMGet(cacheManager, World, key, now, net)
       IN  /\ Store(r.w)
           /\ Observe(Call("Get", key, "nil", r.found))
    /\ UNCHANGED <<cacheManager, now, live>>

Delete(key, net) ==
    /\ Step
    /\ LET r == CMDelete(cacheManager, World, key, net)
       IN  /\ Store(r.w)
           /\ Observe(Removal("Delete", key, r))
    /\ live' = Restrict(live, DOMAIN live \ {key})
    /\ UNCHANGED <<cacheManager, now>>

Clear(net) ==
    /\ Step
    /\ LET r == CMClear(cacheManager, World, net)
       IN  /\ Store(r.w)
           /\ Observe(Removal("Clear", <<>>, r))
    /\ live' = EmptyMap
    /\ UNCHANGED <<cacheManager, now>>

InvalidatePattern(pattern, net) ==
    /\ Step
    /\ LET r == CMInvalidatePattern(cacheManager, World, pattern, net)
       IN  /\ Store(r.w)
           /\ Observe(Removal("InvalidatePattern", pattern, r))
    /\ live' = Restrict(live, {k \in DOMAIN live : ~Touches(pattern, k)})
    /\ UNCHANGED <<cacheManager, now>>

GetStats(net) ==
    /\ Step
    /\ LET r == CMGetStats(cacheManager, World, net)
       IN  /\ Store(r.w)
           /\ Observe([Call("GetStats", <<>>, "nil", FALSE) EXCEPT !.st = r.st])
    /\ UNCHANGED <<cacheManager, now, live>>

ResetStats ==
    /\ Step
    /\ LET r == CMResetStats(cacheManager, World)
       IN  /\ Store(r.w)
           /\ Observe(Call("ResetStats", <<>>, r.err, FALSE))
    /\ UNCHANGED <<cacheManager, now, live>>

Next ==
    \/ \E pingOk \in BOOLEAN : InitializeCache(pingOk)
    \/ \E d \in Sleeps : Tick(d)
    \/ Cleanup
    \/ \E key \in Keys, pl \in Payloads, ttl \in TTLs, lag \in Lags, net \in Net1 :
          Set(key, pl, ttl, lag, net)
    \/ \E key \in Keys, net \in Net : Get(key, net)
    \/ \E key \in Keys, net \in Net1 : Delete(key, net)
    \/ \E net \in Net : Clear(net)
    \/ \E pattern \in Patterns, net \in Net : InvalidatePattern(pattern, net)
    \/ \E net \in Net1 : GetStats(net)
    \/ ResetStats

Spec == Init /\ [][Next]_vars

-----------------------------------------------------------------------------
(* The RedisCache called on its own, as NewRedisCache returned it, with
   another client of the server writing under the same prefix *)

RedisCall == steps < MaxCalls /\ steps' = steps + 1

\* what a call on the RedisCache leaves alone
RedisOnly ==
    UNCHANGED <<cacheManager, items, live, resp, run, flight, health, mutex,
                goroutines>>

\* the ttl and the payload of the Sets
RedisTTL == 1
RedisPayload == [Data |-> <<1>>, Headers |-> ("Content-Type" :> <<"j">>)]

RedisGet(key, net) ==
    /\ RedisCall
    /\ LET r == RCGet(rdb, stats, key, now, net)
       IN  /\ rdb' = r.rdb
           /\ stats' = r.stats
           /\ last' = [Call("Get", key, "nil", r.found) EXCEPT
                         !.failed = ~net[1], !.del = r.del]
    /\ gets' = gets + 1
    /\ UNCHANGED now
    /\ RedisOnly

RedisSet(key, lag, net) ==
    /\ RedisCall
    /\ LET r == RCSet(rdb, key, RedisPayload.Data, RedisPayload.Headers,
                      RedisTTL, now, lag, net)
       IN  /\ rdb' = r.rdb
           /\ last' = [Call("Set", key, r.err, FALSE) EXCEPT !.failed = ~net]
    /\ UNCHANGED <<stats, gets, now>>
    /\ RedisOnly

RedisDelete(key, net) ==
    /\ RedisCall
    /\ LET r == RCDelete(rdb, key, net)
       IN  /\ rdb' = r.rdb
           /\ last' = [Call("Delete", key, r.err, FALSE) EXCEPT !.failed = ~net]
    /\ UNCHANGED <<stats, gets, now>>
    /\ RedisOnly

\* KEYS failed, or it returned keys and DEL failed
KeysDelFailed(pattern, net) ==
    ~net[1] \/ (\E fk \in DOMAIN rdb : GlobMatch(pattern, fk) /\ ~net[2])

RedisClear(net) ==
    /\ RedisCall
    /\ LET r == RCClear(rdb, net)
       IN  /\ rdb' = r.rdb
           /\ last' = [Call("Clear", <<>>, r.err, FALSE) EXCEPT
                         !.failed = KeysDelFailed(Prefix \o <<"*">>, net)]
    /\ UNCHANGED <<stats, gets, now>>
    /\ RedisOnly

RedisInvalidatePattern(pattern, net) ==
    /\ RedisCall
    /\ LET r == RCInvalidatePattern(rdb, pattern, net)
       IN  /\ rdb' = r.rdb
           /\ last' = [Call("InvalidatePattern", pattern, r.err, FALSE) EXCEPT
                         !.failed = KeysDelFailed(
                             Prefix \o <<"*">> \o pattern \o <<"*">>, net)]
    /\ UNCHANGED <<stats, gets, now>>
    /\ RedisOnly

RedisGetStats(net) ==
    /\ RedisCall
    /\ stats' = RCGetStats(rdb, stats, net)
    /\ last' = [Call("GetStats", <<>>, "nil", FALSE) EXCEPT !.failed = ~net]
    /\ UNCHANGED <<rdb, gets, now>>
    /\ RedisOnly

RedisResetStats ==
    /\ RedisCall
    /\ stats' = RCResetStats(stats)
    /\ last' = Call("ResetStats", <<>>, "nil", FALSE)
    /\ gets' = 0
    /\ UNCHANGED <<rdb, now>>
    /\ RedisOnly

\* another client of the server puts a value of its own under a cache key
ForeignWrite(key) ==
    /\ RedisCall
    /\ rdb' = [fk \in DOMAIN rdb \cup {Prefix \o key} |->
                  IF fk = Prefix \o key
                  THEN [val |-> Malformed, exp |-> now + RedisTTL]
                  ELSE rdb[fk]]
    /\ last' = Call("ForeignWrite", key, "nil", FALSE)
    /\ UNCHANGED <<stats, gets, now>>
    /\ RedisOnly

RedisTick(d) ==
    /\ RedisCall
    /\ now' = now + d
    /\ rdb' = RedisExpire(rdb, now')
    /\ last' = Call("Tick", <<>>, "nil", FALSE)
    /\ UNCHANGED <<stats, gets>>
    /\ RedisOnly

NextRedis ==
    \/ \E key \in Keys, net \in Net2 : RedisGet(key, net)
    \/ \E key \in Keys, lag \in ServerLag, net \in BOOLEAN : RedisSet(key, lag, net)
    \/ \E key \in Keys, net \in BOOLEAN : RedisDelete(key, net)
    \/ \E net \in Net2 : RedisClear(net)
    \/ \E pattern \in Patterns, net \in Net2 : RedisInvalidatePattern(pattern, net)
    \/ \E net \in BOOLEAN : RedisGetStats(net)
    \/ RedisResetStats
    \/ \E key \in Keys : ForeignWrite(key)
    \/ \E d \in Sleeps : RedisTick(d)

SpecRedis == Init /\ [][NextRedis]_vars

-----------------------------------------------------------------------------
(* RedisCaches with prefixes of their own on one server: REDIS_PREFIX is
   taken from the environment of each, and the second here begins with the
   first. *)

Prefixes == {<<"c", ":">>, <<"c", ":", "x">>, <<"d", ":">>}

\* RedisCache.Set of a RedisCache whose r.prefix is prefix
SetUnder(prefix, db, key, data, headers, ttl, t, net) ==
    LET fullKey == prefix \o key
        jsonData == JsonMarshal(CacheItem(data, headers, t + ttl))
    IN  IF ~net THEN [rdb |-> db, err |-> "failed to set cache item"]
        ELSE [rdb |-> [fk \in DOMAIN db \cup {fullKey} |->
                          IF fk = fullKey
                          THEN [val |-> jsonData, exp |-> t + ttl]
                          ELSE db[fk]],
              err |-> "nil"]

\* RedisCache.Clear of a RedisCache whose r.prefix is prefix
ClearUnder(prefix, db, net) ==
    LET keys == RedisKeys(db, prefix \o <<"*">>)
    IN  IF ~net[1] THEN [rdb |-> db, err |-> "failed to get keys"]
        ELSE IF keys = {} THEN [rdb |-> db, err |-> "nil"]
        ELSE IF ~net[2] THEN [rdb |-> db, err |-> "failed to delete keys"]
        ELSE [rdb |-> Restrict(db, DOMAIN db \ keys), err |-> "nil"]

\* RedisCache.InvalidatePattern of a RedisCache whose r.prefix is prefix
InvalidateUnder(prefix, db, pattern, net) ==
    LET searchPattern == prefix \o <<"*">> \o pattern \o <<"*">>
        keys == RedisKeys(db, searchPattern)
    IN  IF ~net[1] THEN [rdb |-> db, err |-> "failed to get keys for pattern"]
        ELSE IF keys = {} THEN [rdb |-> db, err |-> "nil"]
        ELSE IF ~net[2]
             THEN [rdb |-> db, err |-> "failed to delete keys for pattern"]
        ELSE [rdb |-> Restrict(db, DOMAIN db \ keys), err |-> "nil"]

Shared ==
    UNCHANGED <<cacheManager, items, stats, now, gets, live, resp, run,
                flight, health, mutex, goroutines>>

SharedCall == steps < MaxShared /\ steps' = steps + 1

SharedSet(prefix, key, net) ==
    /\ SharedCall
    /\ LET r == SetUnder(prefix, rdb, key, RedisPayload.Data,
                         RedisPayload.Headers, RedisTTL, now, net)
       IN  /\ rdb' = r.rdb
           /\ last' = [Call("Set", key, r.err, FALSE) EXCEPT !.prefix = prefix]
    /\ Shared

SharedClear(prefix, net) ==
    /\ SharedCall
    /\ LET r == ClearUnder(prefix, rdb, net)
       IN  /\ rdb' = r.rdb
           /\ last' = [Call("Clear", <<>>, r.err, FALSE) EXCEPT
                         !.prefix = prefix]
    /\ Shared

SharedInvalidatePattern(prefix, pattern, net) ==
    /\ SharedCall
    /\ LET r == InvalidateUnder(prefix, rdb, pattern, net)
       IN  /\ rdb' = r.rdb
           /\ last' = [Call("InvalidatePattern", pattern, r.err, FALSE) EXCEPT
                         !.prefix = prefix]
    /\ Shared

NextShared ==
    \/ \E prefix \in Prefixes, key \in Keys, net \in BOOLEAN :
          SharedSet(prefix, key, net)
    \/ \E prefix \in Prefixes, net \in Net2 : SharedClear(prefix, net)
    \/ \E prefix \in Prefixes, pattern \in Patterns, net \in Net2 :
          SharedInvalidatePattern(prefix, pattern, net)

SpecShared == Init /\ [][NextShared]_vars

-----------------------------------------------------------------------------
(* sync.RWMutex, as the package documents it: any number of readers or one
   writer; a Lock that waits keeps new readers out until it has been granted
   and released *)

\* w.w.Lock() has gone through: no other writer holds or waits ahead
CanLock(mu) == mu.writer = 0

Lock(mu, g) == [mu EXCEPT !.writer = g]

Locked(mu, g) == mu.writer = g /\ mu.readers = {}

\* an Unlock that leaves the lock held
Unlock_Held(mu, g) == mu

Unlock(mu, g) == [writer |-> 0, readers |-> mu.blocked, blocked |-> {}]

RLock(mu, g) ==
    IF mu.writer = 0
    THEN [mu EXCEPT !.readers = @ \cup {g}]
    ELSE [mu EXCEPT !.blocked = @ \cup {g}]

RLocked(mu, g) == g \in mu.readers

RUnlock(mu, g) == [mu EXCEPT !.readers = @ \ {g}]

-----------------------------------------------------------------------------
(* The InMemoryCache under concurrent callers: each method is the call of
   Lock or RLock, the wait for it, the work on the map, and the deferred
   unlock; the sweep is one more goroutine.  The manager is the one built
   when Redis could not be reached. *)

\* every method takes the read lock and works on the map under it
LockOf_AllRead(op) == "RLock"

\* the lock a method takes
LockOf(op) == IF op \in {"Get", "GetStats"} THEN "RLock" ELSE "Lock"

\* what goroutine g stores: its own body, header and ttl
BodyOf(g) == <<g>>
HeadersOf(g) == "Content-Type" :> <<IF g = 1 THEN "j" ELSE "h">>

\* the key the goroutines contend for
LocalKey == <<"a", "b">>

\* the calls a goroutine makes: request marks the Get of the middleware
LocalCalls(g) ==
    {[Resting EXCEPT !.pc = "lock", !.op = "Get", !.key = LocalKey,
                     !.request = r] : r \in BOOLEAN}
    \cup {[Resting EXCEPT !.pc = "lock", !.op = "Set", !.key = LocalKey,
                          !.data = BodyOf(g), !.headers = HeadersOf(g),
                          !.ttl = g]}
    \cup {[Resting EXCEPT !.pc = "lock", !.op = "Delete", !.key = LocalKey]}
    \cup {[Resting EXCEPT !.pc = "lock", !.op = "InvalidatePattern",
                          !.key = <<"a">>]}
    \cup {[Resting EXCEPT !.pc = "lock", !.op = op] : op \in {"Clear", "GetStats"}}

Local ==
    UNCHANGED <<cacheManager, rdb, stats, last, resp, run, flight, gets, health>>

\* a request goroutine calls a method of the cache
Enter(g, c) ==
    /\ cacheManager.set /\ cacheManager.useFallback
    /\ goroutines[g].pc = "idle"
    /\ steps < MaxOps
    /\ steps' = steps + 1
    /\ goroutines' = [goroutines EXCEPT ![g] = c]
    /\ UNCHANGED <<items, now, live, mutex>>
    /\ Local

\* the ticker of cleanup fires
Sweep ==
    Enter(Sweeper, [Resting EXCEPT !.pc = "lock", !.op = "cleanup"])

\* c.mutex.Lock() or c.mutex.RLock() is called
Acquire(g) ==
    /\ goroutines[g].pc = "lock"
    /\ IF LockOf(goroutines[g].op) = "Lock"
       THEN CanLock(mutex) /\ mutex' = Lock(mutex, g)
       ELSE mutex' = RLock(mutex, g)
    /\ goroutines' = [goroutines EXCEPT ![g].pc = "wait"]
    /\ UNCHANGED <<items, now, live, steps>>
    /\ Local

\* the call returns: the lock is held
Granted(g) ==
    /\ goroutines[g].pc = "wait"
    /\ IF LockOf(goroutines[g].op) = "Lock"
       THEN Locked(mutex, g)
       ELSE RLocked(mutex, g)
    /\ goroutines' = [goroutines EXCEPT ![g].pc = "in"]
    /\ UNCHANGED <<items, now, live, steps, mutex>>
    /\ Local

\* the body of the method: what it makes of the map and what it will
\* return
Work(m, c, t) ==
    IF c.op = "Get"
    THEN LET r == IMGet(m, c.key, t)
         IN  [items |-> m,
              c |-> [c EXCEPT !.found = r.found, !.item = r.item,
                              !.missed = c.request /\ ~r.found]]
    ELSE IF c.op = "GetStats"
    THEN [items |-> m, c |-> [c EXCEPT !.st = IMGetStats(m)]]
    ELSE IF c.op = "Set"
    THEN [items |-> IMSet(m, c.key, c.data, c.headers, c.ttl, t).items,
          c |-> [c EXCEPT !.wrote = c.request]]
    ELSE IF c.op = "Delete"
    THEN [items |-> IMDelete(m, c.key).items, c |-> c]
    ELSE IF c.op = "Clear"
    THEN [items |-> IMClear(m).items, c |-> c]
    ELSE IF c.op = "InvalidatePattern"
    THEN [items |-> IMInvalidatePattern(m, c.key).items, c |-> c]
    ELSE [items |-> IMCleanup(m, t), c |-> c]

\* the items Set has been called with, per key: the last applied and all
Noted(c, t) ==
    IF c.op # "Set" THEN live
    ELSE LET it == CacheItem(c.data, c.headers, t + c.ttl)
         IN  [k \in DOMAIN live \cup {c.key} |->
                IF k = c.key
                THEN [item |-> it, primaryOk |-> TRUE,
                      written |-> (IF k \in DOMAIN live THEN live[k].written
                                   ELSE {}) \cup {it}]
                ELSE live[k]]

Access(g) ==
    /\ goroutines[g].pc = "in"
    /\ LET r == Work(items, goroutines[g], now)
       IN  /\ items' = r.items
           /\ goroutines' = [goroutines EXCEPT ![g] = [r.c EXCEPT !.pc = "unlock"]]
    /\ live' = Noted(goroutines[g], now)
    /\ UNCHANGED <<now, steps, mutex>>
    /\ Local

\* the deferred Unlock or RUnlock, and the return; a request that missed
\* goes on to its handler
Release(g) ==
    /\ goroutines[g].pc = "unlock"
    /\ mutex' = IF LockOf(goroutines[g].op) = "Lock"
                THEN Unlock(mutex, g)
                ELSE RUnlock(mutex, g)
    /\ goroutines' = [goroutines EXCEPT
          ![g] = IF goroutines[g].missed /\ goroutines[g].op = "Get"
                 THEN [@ EXCEPT !.pc = "handler"]
                 ELSE [Resting EXCEPT !.wrote = goroutines[g].wrote]]
    /\ UNCHANGED <<items, now, live, steps>>
    /\ Local

\* c.Next() has answered 200 with a body: the middleware calls Set
Handler(g) ==
    /\ goroutines[g].pc = "handler"
    /\ goroutines' = [goroutines EXCEPT
          ![g] = [@ EXCEPT !.pc = "lock", !.op = "Set", !.data = BodyOf(g),
                           !.headers = HeadersOf(g), !.ttl = MwTTL]]
    /\ UNCHANGED <<items, now, live, steps, mutex>>
    /\ Local

LocalTick ==
    /\ cacheManager.set /\ cacheManager.useFallback
    /\ steps < MaxOps
    /\ steps' = steps + 1
    /\ now' = now + 1
    /\ UNCHANGED <<items, live, mutex, goroutines>>
    /\ Local

NextLocal ==
    \/ InitializeCache(FALSE)
    \/ \E g \in Callers : \E c \in LocalCalls(g) : Enter(g, c)
    \/ Sweep
    \/ \E g \in Goroutines : Acquire(g)
    \/ \E g \in Goroutines : Granted(g)
    \/ \E g \in Goroutines : Access(g)
    \/ \E g \in Goroutines : Release(g)
    \/ \E g \in Callers : Handler(g)
    \/ LocalTick

SpecLocal == Init /\ [][NextLocal]_vars

\* the scheduler runs every goroutine that can run; a Lock that can be
\* granted again and again is granted (the mutex hands over to a waiter that
\* has waited long); handlers return
Scheduled ==
    \A g \in Goroutines :
        /\ SF_vars(Acquire(g))
        /\ WF_vars(Granted(g))
        /\ WF_vars(Access(g))
        /\ WF_vars(Release(g))
        /\ WF_vars(Handler(g))

SpecLocalFair == SpecLocal /\ Scheduled

-----------------------------------------------------------------------------
(* RedisCache.Get called by two request goroutines at once, on one
   RedisCache, while Sets of the same key arrive at the server.  The method
   takes no lock: its call to the server, the Delete of an item it found
   expired and the two halves of r.stats.Misses++ / r.stats.Hits++ are
   steps of their own. *)

\* what Get makes of the server's answer: net tells whether the GET call
\* went through; expired, that the item read is past its ExpiresAt
ReadOf(db, key, t, net) ==
    LET fullKey == Prefix \o key
        absent == [found |-> FALSE, item |-> NoItem, expired |-> FALSE]
    IN  IF ~net \/ fullKey \notin DOMAIN db THEN absent
        ELSE LET u == JsonUnmarshal(db[fullKey].val)
             IN  IF ~u.ok THEN absent
                 ELSE IF t > u.item.ExpiresAt
                      THEN [absent EXCEPT !.expired = TRUE]
                 ELSE [found |-> TRUE, item |-> u.item, expired |-> FALSE]

\* an increment that counts the Get under both counters
Increment_Both(st, loaded, found) ==
    [st EXCEPT !.Hits = loaded.Hits + 1, !.Misses = loaded.Misses + 1]

\* the second half of r.stats.Hits++ or r.stats.Misses++: the value loaded
\* earlier, plus one, is stored
Increment(st, loaded, found) ==
    IF found THEN [st EXCEPT !.Hits = loaded.Hits + 1]
    ELSE [st EXCEPT !.Misses = loaded.Misses + 1]

Concurrent ==
    UNCHANGED <<cacheManager, items, live, last, resp, run, flight, health,
                mutex>>

\* a goroutine calls Get
BeginRedisGet(g) ==
    /\ goroutines[g].pc = "idle"
    /\ steps < MaxEvents
    /\ steps' = steps + 1
    /\ goroutines' = [goroutines EXCEPT
                        ![g] = [Resting EXCEPT !.pc = "get", !.op = "Get",
                                               !.key = LocalKey]]
    /\ UNCHANGED <<rdb, stats, now, gets>>
    /\ Concurrent

\* r.client.Get, json.Unmarshal and the test of ExpiresAt
ClientGet(g, net) ==
    /\ goroutines[g].pc = "get"
    /\ LET r == ReadOf(rdb, goroutines[g].key, now, net)
       IN  goroutines' =
               [goroutines EXCEPT
                  ![g] = [@ EXCEPT !.pc = IF r.expired THEN "del" ELSE "load",
                                   !.found = r.found, !.item = r.item,
                                   !.missed = ~r.found]]
    /\ UNCHANGED <<rdb, stats, now, steps, gets>>
    /\ Concurrent

\* r.Delete(key) of the item found expired; its error is dropped
ClientDel(g, net) ==
    /\ goroutines[g].pc = "del"
    /\ rdb' = RCDelete(rdb, goroutines[g].key, net).rdb
    /\ goroutines' = [goroutines EXCEPT ![g] = [@ EXCEPT !.pc = "load"]]
    /\ UNCHANGED <<stats, now, steps, gets>>
    /\ Concurrent

\* the counter is read
LoadCounter(g) ==
    /\ goroutines[g].pc = "load"
    /\ goroutines' = [goroutines EXCEPT
                        ![g] = [@ EXCEPT !.pc = "store", !.st = stats]]
    /\ UNCHANGED <<rdb, stats, now, steps, gets>>
    /\ Concurrent

\* the counter is written and Get returns
StoreCounter(g) ==
    /\ goroutines[g].pc = "store"
    /\ stats' = Increment(stats, goroutines[g].st, goroutines[g].found)
    /\ gets' = gets + 1
    /\ goroutines' = [goroutines EXCEPT
                        ![g] = [Resting EXCEPT !.found = goroutines[g].found,
                                               !.missed = goroutines[g].missed]]
    /\ UNCHANGED <<rdb, now, steps>>
    /\ Concurrent

\* a request that missed, on this instance or another, stores its response
ConcurrentSet(lag) ==
    /\ steps < MaxEvents
    /\ steps' = steps + 1
    /\ rdb' = RCSet(rdb, LocalKey, RedisPayload.Data, RedisPayload.Headers,
                    RedisTTL, now, lag, TRUE).rdb
    /\ UNCHANGED <<stats, now, gets, goroutines>>
    /\ Concurrent

ConcurrentTick(d) ==
    /\ steps < MaxEvents
    /\ steps' = steps + 1
    /\ now' = now + d
    /\ rdb' = RedisExpire(rdb, now')
    /\ UNCHANGED <<stats, gets, goroutines>>
    /\ Concurrent

NextGets ==
    \/ \E g \in Callers : BeginRedisGet(g)
    \/ \E g \in Callers, net \in BOOLEAN : ClientGet(g, net)
    \/ \E g \in Callers, net \in BOOLEAN : ClientDel(g, net)
    \/ \E g \in Callers : LoadCounter(g)
    \/ \E g \in Callers : StoreCounter(g)
    \/ \E lag \in ServerLag : ConcurrentSet(lag)
    \/ \E d \in Sleeps : ConcurrentTick(d)

SpecGets == Init /\ [][NextGets]_vars

-----------------------------------------------------------------------------
(* The cache controller's health check *)

\* the 0.3 and the 100 of CacheHealth
LowRatio == [num |-> 3, den |-> 10]
MinLookups == 100

\* a < b on ratios
Less(a, b) == a.num * b.den < b.num * a.den

\* a health check that is degraded from MinLookups lookups on
Health_AtLeast(st) ==
    IF st.CacheType = "not_initialized"
    THEN [status |-> "unhealthy", code |-> 503,
          cache_type |-> st.CacheType, hit_ratio |-> st.HitRatio]
    ELSE IF Less(st.HitRatio, LowRatio) /\ st.Hits + st.Misses >= MinLookups
         THEN [status |-> "degraded", code |-> 206,
               cache_type |-> st.CacheType, hit_ratio |-> st.HitRatio]
    ELSE [status |-> "healthy", code |-> 200,
          cache_type |-> st.CacheType, hit_ratio |-> st.HitRatio]

\* what CacheHealth answers for the stats it got: the status field, the HTTP
\* status code, and the cache_type and hit_ratio it copies
Health(st) ==
    IF st.CacheType = "not_initialized"
    THEN [status |-> "unhealthy", code |-> 503,
          cache_type |-> st.CacheType, hit_ratio |-> st.HitRatio]
    ELSE IF Less(st.HitRatio, LowRatio) /\ st.Hits + st.Misses > MinLookups
         THEN [status |-> "degraded", code |-> 206,
               cache_type |-> st.CacheType, hit_ratio |-> st.HitRatio]
    ELSE [status |-> "healthy", code |-> 200,
          cache_type |-> st.CacheType, hit_ratio |-> st.HitRatio]

\* the counters a RedisCache can have reached when the check is made
Counters ==
    {[NewStats EXCEPT !.Hits = h, !.Misses = m] : h, m \in 0..MaxLookups}

\* no manager, a manager on the InMemoryCache, or one on a RedisCache that
\* has counted lookups
InitHealth ==
    /\ cacheManager \in {NilManager, NewCacheManager(FALSE), NewCacheManager(TRUE)}
    /\ stats \in IF cacheManager.primary = "redis" THEN Counters ELSE {NewStats}
    /\ items = EmptyMap
    /\ rdb = EmptyMap
    /\ now = 0
    /\ steps = 0
    /\ last = NoCall
    /\ live = EmptyMap
    /\ resp = NoRequest
    /\ run = NoRun
    /\ flight = NoFlight
    /\ gets = stats.Hits + stats.Misses
    /\ health = NoHealth
    /\ mutex = Unlocked
    /\ goroutines = NoGoroutines

\* GET /cache/health
CacheHealth(net) ==
    /\ LET r == CacheStats(cacheManager, World, net)
       IN  /\ Store(r.w)
           /\ health' = Health(r.st)
    /\ last' = Call("CacheHealth", <<>>, "nil", FALSE)
    /\ UNCHANGED <<cacheManager, now, steps, live, resp, run, flight, gets,
                   mutex, goroutines>>

NextHealth == \E net \in Net1 : CacheHealth(net)

SpecHealth == InitHealth /\ [][NextHealth]_vars

-----------------------------------------------------------------------------
(* Requests through the middleware *)

T == <<"/", "t">>

Request(method, path, query, ua) ==
    [method |-> method, path |-> path, query |-> query, ua |-> ua]

Requests ==
    {Request("GET", T, <<"a">>, <<"b", ":", "c">>),
     Request("GET", T, <<"a", ":", "b">>, <<"c">>),
     Request("GET", T, <<"a">>, <<"c">>),
     Request("POST", T, <<"a">>, <<"c">>),
     Request("GET", Admin, <<>>, <<"c">>)}

Handled(status, body) ==
    [status |-> status, body |-> body, headers |-> ("Content-Type" :> <<"j">>)]

Outs == {Handled(200, <<1>>), Handled(200, <<2>>), Handled(500, <<1>>),
         Handled(204, <<>>)}

\* the outcomes of a request's three calls to the server
Net3 == IF cacheManager.primary = "redis"
        THEN {<<TRUE, TRUE, TRUE>>, <<FALSE, FALSE, FALSE>>,
              <<TRUE, FALSE, TRUE>>, <<TRUE, TRUE, FALSE>>}
        ELSE {<<TRUE, TRUE, TRUE>>}

\* the request served and what came of it
Served(req, r, out, net) ==
    [n |-> resp.n + 1, method |-> req.method, path |-> req.path,
     query |-> req.query, ua |-> req.ua, key |-> r.key,
     status |-> r.status, body |-> r.body, xcache |-> r.xcache,
     ran |-> r.ran, gets |-> r.gets, sets |-> r.sets,
     hadEntry |-> CMGet(cacheManager, World, generateRedisCacheKey(req),
                        now, <<TRUE, TRUE>>).found,
     at |-> now, getOk |-> net[1], setOk |-> net[3],
     follows |-> IF resp.n >= 1 /\ ~resp.hadEntry /\ resp.method = req.method
                    /\ resp.path = req.path /\ resp.query = req.query
                    /\ resp.ua = req.ua
                 THEN resp.xcache ELSE "-",
     headers |-> r.headers,
     origin |-> IF r.ran THEN [status |-> out.status, body |-> out.body]
                ELSE NoRequest.origin]

Answer(req, out, lag, net) ==
    RedisCacheMiddleware(cacheManager, World, req, now, MwTTL, out, lag, net)

\* one request through the router
Handle(req, out, lag, net) ==
    /\ StepWithin(MaxMwSteps)
    /\ LET r == Answer(req, out, lag, net)
       IN  /\ Store(r.w)
           /\ resp' = Served(req, r, out, net)
           /\ last' = Call("Request", r.key, "nil", r.xcache = "HIT")
    /\ run' = NoRun
    /\ UNCHANGED <<cacheManager, now, live, flight,
                 gets, health, mutex, goroutines>>

MwTick(d) == Elapse(d, MaxMwSteps)

\* InvalidateCache(pattern), called by a write handler
InvalidateCache(pattern, net) ==
    /\ CallWithin(MaxMwSteps)
    /\ LET r == Invalidated(cacheManager, World, pattern, net)
       IN  /\ Store(r.w)
           /\ Observe(Call("InvalidatePattern", pattern, r.err, FALSE))
    /\ UNCHANGED <<cacheManager, now, live>>

NextMw ==
    \/ \E pingOk \in BOOLEAN : InitializeCache(pingOk)
    \/ \E req \in Requests, out \in Outs, lag \in Lags, net \in Net3 :
          Handle(req, out, lag, net)
    \/ \E d \in Sleeps : MwTick(d)
    \/ \E pattern \in Patterns, net \in Net : InvalidateCache(pattern, net)

SpecMw == Init /\ [][NextMw]_vars

-----------------------------------------------------------------------------
(* Requests for the resources of the API, and the invalidations the write
   handlers and the cache controller make *)

PathRequests ==
    {Request("GET", Admin, <<>>, <<>>),
     Request("GET", T \o Auth, <<>>, <<>>),
     Request("GET", T, Admin, <<>>),
     Request("GET", Posts, <<>>, <<>>),
     Request("GET", Pages \o Media, <<>>, <<>>),
     Request("GET", Media \o Posts, <<>>, <<>>),
     Request("GET", Media, <<>>, <<>>)}

PathOuts == {Handled(200, <<1>>), Handled(201, <<1>>)}

InvalidatePostCache(net) == InvalidateCache(Tail(Posts), net)

InvalidatePageCache(net) == InvalidateCache(Tail(Pages), net)

InvalidateMediaCache(net) == InvalidateCache(Tail(Media), net)

NextPaths ==
    \/ \E pingOk \in BOOLEAN : InitializeCache(pingOk)
    \/ \E req \in PathRequests, out \in PathOuts, lag \in Lags, net \in Net3 :
          Handle(req, out, lag, net)
    \/ \E net \in Net : InvalidatePostCache(net)
    \/ \E net \in Net : InvalidatePageCache(net)
    \/ \E net \in Net : InvalidateMediaCache(net)

SpecPaths == Init /\ [][NextPaths]_vars

-----------------------------------------------------------------------------
(* One request repeated after the cache is cleared, as TestCacheStats does *)

Repeated == Request("GET", T, <<"a">>, <<"c">>)

RunOuts == {Handled(200, <<1>>), Handled(500, <<1>>)}

\* the server answers every call of a request, or none
RunNet == IF cacheManager.primary = "redis"
          THEN {<<TRUE, TRUE, TRUE>>, <<FALSE, FALSE, FALSE>>}
          ELSE {<<TRUE, TRUE, TRUE>>}

\* ClearAllCache(): a run of requests starts when it succeeds
ClearAllCache(net) ==
    /\ CallWithin(MaxSteps)
    /\ LET r == Cleared(cacheManager, World, net)
       IN  /\ Store(r.w)
           /\ last' = Call("Clear", <<>>, r.err, FALSE)
           /\ run' = IF ~cacheManager.set THEN run
                     ELSE [run EXCEPT
                             !.active = r.err = "nil", !.n = 0,
                             !.h0 = r.w.stats.Hits, !.m0 = r.w.stats.Misses,
                             !.clean = r.err = "nil", !.ok = TRUE]
    /\ UNCHANGED <<cacheManager, now, live, resp, flight,
                 gets, health, mutex, goroutines>>

\* cacheManager.ResetStats() before the requests of a run
ResetCounters ==
    /\ Step
    /\ run.n = 0
    /\ LET r == CMResetStats(cacheManager, World)
       IN  /\ Store(r.w)
           /\ last' = Call("ResetStats", <<>>, r.err, FALSE)
    /\ run' = [run EXCEPT !.h0 = 0, !.m0 = 0]
    /\ UNCHANGED <<cacheManager, now, live, resp, flight,
                 gets, health, mutex, goroutines>>

\* GetCacheStats()
GetCacheStats(net) ==
    /\ CallWithin(MaxSteps)
    /\ LET r == CacheStats(cacheManager, World, net)
       IN  /\ Store(r.w)
           /\ last' = [Call("GetStats", <<>>, "nil", FALSE) EXCEPT !.st = r.st]
    /\ UNCHANGED <<cacheManager, now, live, resp, run, flight,
                 gets, health, mutex, goroutines>>

\* the next request
Repeat(out, net) ==
    /\ cacheManager.set
    /\ run.served < MaxRun
    /\ LET r == Answer(Repeated, out, 0, net)
       IN  /\ Store(r.w)
           /\ last' = Call("Request", <<>>, "nil", r.xcache = "HIT")
    /\ run' = [run EXCEPT
                 !.served = @ + 1,
                 !.n = @ + 1,
                 !.t0 = IF run.n = 0 THEN now ELSE @,
                 !.clean = @ /\ (run.n = 0 \/ now <= run.t0 + MwTTL),
                 !.ok = @ /\ net = <<TRUE, TRUE, TRUE>>
                          /\ out.status \in 200..299 /\ out.body # <<>>]
    /\ UNCHANGED <<cacheManager, now, live, resp, steps, flight,
                 gets, health, mutex, goroutines>>

\* time passing between the requests
Wait(d) == run.n > 0 /\ Elapse(d, MaxSteps)

NextRun ==
    \/ \E pingOk \in BOOLEAN : InitializeCache(pingOk)
    \/ \E net \in Net : ClearAllCache(net)
    \/ ResetCounters
    \/ \E net \in Net1 : GetCacheStats(net)
    \/ \E out \in RunOuts, net \in RunNet : Repeat(out, net)
    \/ \E d \in Sleeps : Wait(d)

SpecRun == Init /\ [][NextRun]_vars

-----------------------------------------------------------------------------
(* The functions of the cache controller and of the write handlers, called
   before and after the manager is there *)

NextControl ==
    \/ \E pingOk \in BOOLEAN : InitializeCache(pingOk)
    \/ \E req \in PathRequests, out \in PathOuts, lag \in Lags, net \in Net3 :
          Handle(req, out, lag, net)
    \/ \E net \in Net1 : GetCacheStats(net)
    \/ \E net \in Net : ClearAllCache(net)
    \/ \E pattern \in Patterns, net \in Net : InvalidateCache(pattern, net)
    \/ \E net \in Net : InvalidatePostCache(net)
    \/ \E net \in Net : InvalidatePageCache(net)
    \/ \E net \in Net : InvalidateMediaCache(net)

SpecControl == Init /\ [][NextControl]_vars

-----------------------------------------------------------------------------
(* The write handlers of posts, pages and media.  Each validates its input,
   opens a transaction, makes its change, rolls back and answers 500 when
   the change fails, and otherwise calls tx.Commit(), the invalidation
   wrapper of its resource and c.JSON with its success status. *)

WriteHandlers ==
    {[name |-> "CreatePost", tag |-> Tail(Posts), success |-> 201],
     [name |-> "UpdatePost", tag |-> Tail(Posts), success |-> 200],
     [name |-> "DeletePost", tag |-> Tail(Posts), success |-> 200],
     [name |-> "CreatePage", tag |-> Tail(Pages), success |-> 201],
     [name |-> "UpdatePage", tag |-> Tail(Pages), success |-> 200],
     [name |-> "DeletePage", tag |-> Tail(Pages), success |-> 200],
     [name |-> "CreateMedia", tag |-> Tail(Media), success |-> 201],
     [name |-> "DeleteMedia", tag |-> Tail(Media), success |-> 200]}

\* the requests that fill the cache the handlers invalidate
WrittenRequests ==
    {Request("GET", Posts, <<>>, <<>>), Request("GET", Media, <<>>, <<>>)}

Writing ==
    UNCHANGED <<cacheManager, now, steps, live, resp, run, gets, health,
                mutex, goroutines>>

\* the handler up to db.Begin(): valid tells whether the input passed the
\* binding, the validation and the lookups (400 or 404 otherwise)
BeginWrite(h, valid) ==
    /\ flight.handler.pc \in {"idle", "done"}
    /\ flight.handler.n < MaxWrites
    /\ flight' = [flight EXCEPT
         !.handler = [NoWrite EXCEPT
            !.pc = IF valid THEN "begun" ELSE "done",
            !.name = h.name, !.tag = h.tag, !.success = h.success,
            !.status = IF valid THEN 0 ELSE 400,
            !.n = flight.handler.n + 1]]
    /\ UNCHANGED <<items, rdb, stats, last>>
    /\ Writing

\* tx.Create, tx.Save or tx.Delete; on an error tx.Rollback() and a 500
Mutate(ok) ==
    /\ flight.handler.pc = "begun"
    /\ flight' = [flight EXCEPT
         !.handler.pc = IF ok THEN "commit" ELSE "done",
         !.handler.status = IF ok THEN 0 ELSE 500]
    /\ UNCHANGED <<items, rdb, stats, last>>
    /\ Writing

\* tx.Commit(): its result is not looked at
Commit(ok) ==
    /\ flight.handler.pc = "commit"
    /\ flight' = [flight EXCEPT
         !.db = IF ok THEN @ + 1 ELSE @,
         !.handler.pc = "invalidate",
         !.handler.committed = ok]
    /\ UNCHANGED <<items, rdb, stats, last>>
    /\ Writing

\* middleware.InvalidatePostCache(), InvalidatePageCache() or
\* InvalidateMediaCache(): the error returned is dropped
InvalidateWritten(net) ==
    /\ flight.handler.pc = "invalidate"
    /\ LET r == Invalidated(cacheManager, World, flight.handler.tag, net)
       IN  /\ Store(r.w)
           /\ last' = Removal("InvalidatePattern", flight.handler.tag, r)
    /\ flight' = [flight EXCEPT
         !.handler.pc = "respond",
         !.handler.invalidations = @ + 1,
         !.invalidated = flight.db]
    /\ Writing

\* c.JSON with the handler's success status
Respond ==
    /\ flight.handler.pc = "respond"
    /\ flight' = [flight EXCEPT
         !.handler.pc = "done",
         !.handler.status = flight.handler.success]
    /\ UNCHANGED <<items, rdb, stats, last>>
    /\ Writing

NextWrite ==
    \/ \E pingOk \in BOOLEAN : InitializeCache(pingOk)
    \/ \E req \in WrittenRequests, out \in PathOuts, net \in Net3 :
          Handle(req, out, 0, net)
    \/ \E h \in WriteHandlers, valid \in BOOLEAN : BeginWrite(h, valid)
    \/ \E ok \in BOOLEAN : Mutate(ok)
    \/ \E ok \in BOOLEAN : Commit(ok)
    \/ \E net \in Net : InvalidateWritten(net)
    \/ Respond

SpecWrite == Init /\ [][NextWrite]_vars

-----------------------------------------------------------------------------
(* Instances sharing the Redis server.  A GET /posts goes through the
   middleware in three steps, as other instances run between them: the
   lookup, the handler (c.Next()) reading the database, and the Set of what
   the handler wrote.  A write commits, then invalidates. *)

PostsRequest == Request("GET", Posts, <<>>, <<>>)

PostsKey == generateRedisCacheKey(PostsRequest)

Racing ==
    UNCHANGED <<cacheManager, now, steps, live, resp, run,
                gets, health, mutex, goroutines>>

\* the middleware up to c.Next(): the lookup, answered at once on a hit
BeginGet(i) ==
    /\ cacheManager.set
    /\ flight.get[i].pc \in {"idle", "served"}
    /\ flight.started < MaxGets
    /\ LET g == CMGet(cacheManager, World, PostsKey, now, <<TRUE, TRUE>>)
       IN  /\ Store(g.w)
           /\ last' = Call("Get", PostsKey, "nil", g.found)
           /\ flight' = [flight EXCEPT
                 !.started = @ + 1,
                 !.get[i] = [pc |-> IF g.found THEN "served" ELSE "missed",
                             body |-> IF g.found THEN g.item.Data ELSE <<>>,
                             xcache |-> IF g.found THEN "HIT" ELSE "",
                             floor |-> flight.invalidated]]
    /\ Racing

\* the handler GetPosts answers with the posts as committed now
GetPosts(i) ==
    /\ flight.get[i].pc = "missed"
    /\ flight' = [flight EXCEPT !.get[i].pc = "handled",
                                !.get[i].body = <<flight.db>>]
    /\ UNCHANGED <<items, rdb, stats, last>>
    /\ Racing

\* the middleware after c.Next(): the Set of the 200 response
EndGet(i) ==
    /\ flight.get[i].pc = "handled"
    /\ LET out == Handled(200, flight.get[i].body)
           st == CMSet(cacheManager, World, PostsKey, out.body, out.headers,
                       MwTTL, now, 0, TRUE)
       IN  /\ Store(st.w)
           /\ last' = Call("Set", PostsKey, st.err, FALSE)
    /\ flight' = [flight EXCEPT !.get[i].pc = "served",
                                !.get[i].xcache = "MISS"]
    /\ Racing

\* CreatePost up to tx.Commit()
CommitPost ==
    /\ cacheManager.set
    /\ flight.write = "idle"
    /\ flight.db < MaxCommits
    /\ flight' = [flight EXCEPT !.db = @ + 1, !.write = "committed"]
    /\ UNCHANGED <<items, rdb, stats, last>>
    /\ Racing

\* CreatePost after the commit: middleware.InvalidatePostCache() returns
InvalidatePosts ==
    /\ flight.write = "committed"
    /\ LET r == CMInvalidatePattern(cacheManager, World, Tail(Posts),
                                    <<TRUE, TRUE>>)
       IN  /\ Store(r.w)
           /\ last' = Call("InvalidatePattern", Tail(Posts), r.err, FALSE)
    /\ flight' = [flight EXCEPT !.write = "idle", !.invalidated = flight.db]
    /\ Racing

NextRace ==
    \/ InitializeCache(TRUE)
    \/ \E i \in Instances : BeginGet(i)
    \/ \E i \in Instances : GetPosts(i)
    \/ \E i \in Instances : EndGet(i)
    \/ CommitPost
    \/ InvalidatePosts

SpecRace == Init /\ [][NextRace]_vars

-----------------------------------------------------------------------------
(* Properties of the stores and of the manager *)

\* the key a full Redis key stands for
Logical(fullKey) == SubSeq(fullKey, Len(Prefix) + 1, Len(fullKey))

SameEntry(got, want) == got.Data = want.Data /\ got.ExpiresAt = want.ExpiresAt

Unexpired(k) == now < live[k].item.ExpiresAt

AbsentWhen(Expired(_, _)) ==
    /\ \A k \in DOMAIN items :
          Expired(now, items[k].ExpiresAt) => ~IMGet(items, k, now).found
    /\ \A fk \in DOMAIN rdb :
          Expired(now, JsonUnmarshal(rdb[fk].val).item.ExpiresAt) =>
              \A net \in Net2 : ~RCGet(rdb, stats, Logical(fk), now, net).found

AtOrAfter(t, expiresAt) == t >= expiresAt
After(t, expiresAt) == t > expiresAt

\* C2 as stated: in both stores get reports absent whenever the clock is at
\* or after the item's ExpiresAt, the instant ExpiresAt itself included, even
\* while the entry is still in storage.
C2_LazyExpiry_AsStated == AbsentWhen(AtOrAfter)

\* C2, amended: in both stores get reports absent whenever the clock is
\* strictly after the item's ExpiresAt, even while the entry is still in
\* storage.
C2_LazyExpiry == AbsentWhen(After)

\* C2's case: a Get reported absent for a key whose expired entry is still
\* in the in-memory store
C2_Witness ==
    /\ last.op = "Get" /\ ~last.found
    /\ last.key \in DOMAIN items
    /\ now > items[last.key].ExpiresAt

\* C3: round trip: a Get that finds a key, before expiry, returns the data
\* and the headers mapping that the Set stored, for every data and headers.
C3_RoundTrip ==
    \A k \in DOMAIN live : (Unexpired(k) /\ live[k].primaryOk) =>
        \A net \in Net :
            LET r == CMGet(cacheManager, World, k, now, net)
            IN  r.found => /\ r.item.Data = live[k].item.Data
                           /\ r.item.Headers = live[k].item.Headers

\* C4: on the in-memory store Delete returns no error whether or not the key
\* is present, Get of the key then reports absent, and a second Delete leaves
\* the contents as the first left them.
C4_DeleteIdempotent ==
    /\ \A k \in Keys :
          LET d == IMDelete(items, k)
          IN  /\ d.err = "nil"
              /\ ~IMGet(d.items, k, now).found
              /\ IMDelete(d.items, k) = d
    /\ last.op = "Delete" =>
          /\ last.key \notin DOMAIN items
          /\ ~IMGet(items, last.key, now).found
          /\ cacheManager.primary = "in_memory" => last.err = "nil"

\* C4's case: a Delete has removed a key from an in-memory store that holds
\* another key
C4_Witness ==
    /\ cacheManager.primary = "in_memory"
    /\ last.op = "Delete" /\ last.err = "nil"
    /\ last.key \notin DOMAIN items
    /\ DOMAIN items # {}

\* C5: after InvalidatePattern(p) returns nil no key left in the store
\* contains p, and every key that does not contain p is still there with its
\* item unchanged.
C5_Invalidation ==
    [][(last'.op = "InvalidatePattern" /\ last'.err = "nil") =>
          IF cacheManager.primary = "redis"
          THEN /\ \A fk \in DOMAIN rdb' : ~Contains(Logical(fk), last'.key)
               /\ \A fk \in DOMAIN rdb :
                     ~Contains(Logical(fk), last'.key) =>
                         fk \in DOMAIN rdb' /\ rdb'[fk] = rdb[fk]
          ELSE /\ \A k \in DOMAIN items' : ~Contains(k, last'.key)
               /\ \A k \in DOMAIN items :
                     ~Contains(k, last'.key) =>
                         k \in DOMAIN items' /\ items'[k] = items[k]]_vars

\* a request was served in this step, right after another one
Consecutive == resp.n >= 1 /\ resp'.n = resp.n + 1

SameRequest ==
    /\ resp'.method = resp.method
    /\ resp'.path = resp.path
    /\ resp'.query = resp.query
    /\ resp'.ua = resp.ua

\* two GETs of one URL and User-Agent, the first finding no entry, the
\* second within the ttl; nothing was invalidated between them
TwoGets ==
    /\ Consecutive
    /\ SameRequest
    /\ resp.method = "GET"
    /\ ~resp.hadEntry
    /\ resp'.at <= resp.at + MwTTL

MissThenHit ==
    /\ resp.xcache = "MISS"
    /\ resp'.xcache = "HIT"
    /\ resp'.body = resp.body

\* C6 as stated: of two consecutive GETs of the same URL and User-Agent, the
\* first finding no entry and the second within the ttl, the first is a MISS,
\* the second a HIT, and the second body is the first's.
C6_MissThenHit_AsStated == [][TwoGets => MissThenHit]_vars

\* the first response is one the middleware stores: the path is not
\* excluded, the status is in [200,300) and the body is not empty
Stored(r) ==
    /\ ~Contains(r.path, Admin) /\ ~Contains(r.path, Auth)
    /\ r.status \in 200..299
    /\ r.body # <<>>

\* C6: of two consecutive GETs of the same URL and User-Agent, the first
\* finding no entry and the second within the ttl, the first is a MISS, the
\* second a HIT and the second body is the first's, provided the first
\* response is one the middleware stores, its write reaches the primary
\* store and the read of the second does not fail.
C6_MissThenHit ==
    [][(TwoGets /\ Stored(resp) /\ resp.setOk /\ resp'.getOk) => MissThenHit]_vars

\* C6's case: against the Redis store, a HIT that follows the MISS of the
\* same request, with the body the handler wrote the first time
C6_Witness ==
    /\ cacheManager.primary = "redis"
    /\ resp.n = 2
    /\ resp.follows = "MISS"
    /\ resp.xcache = "HIT"
    /\ ~resp.ran
    /\ resp.body # <<>>

\* the request went to the cache under a derived key
Keyed(r) == r.gets = 1

\* C7: the key is a function of method, URL and User-Agent: consecutive
\* requests with the same three have the same key, and consecutive requests
\* that differ in User-Agent or in query string have different keys (so that
\* neither is answered from the entry of the other).
C7_KeyDerivation ==
    [][(Consecutive /\ Keyed(resp) /\ Keyed(resp')) =>
          /\ SameRequest => resp'.key = resp.key
          /\ (resp'.ua # resp.ua \/ resp'.query # resp.query) =>
                resp'.key # resp.key]_vars

\* C8: a request whose method is not GET goes to the handler with no Get and
\* no Set issued, leaves both stores and the counters as they were, and its
\* response carries no X-Cache header.
C8_NonGetPassThrough ==
    [][(resp'.n = resp.n + 1 /\ resp'.method # "GET") =>
          /\ UNCHANGED <<items, rdb, stats>>
          /\ resp'.gets = 0 /\ resp'.sets = 0
          /\ resp'.ran
          /\ resp'.xcache = ""]_vars

\* C8's case: a POST served while the Redis store holds the entry of an
\* earlier GET
C8_Witness ==
    /\ resp.method = "POST"
    /\ resp.n = 2
    /\ resp.status = 200
    /\ DOMAIN rdb # {}

\* requests of a run against the Redis store: the cache was cleared, then the
\* same GET came one or more times within the ttl
InRun ==
    /\ cacheManager.primary = "redis"
    /\ run.active /\ run.clean
    /\ run.n >= 1

Counted ==
    /\ stats.Misses = run.m0 + 1
    /\ stats.Hits = run.h0 + run.n - 1

\* GetStats after five requests counted from zero
Reported ==
    (last.op = "GetStats" /\ run.n = 5 /\ run.h0 = 0 /\ run.m0 = 0) =>
        /\ stats.Hits = 4
        /\ stats.Misses = 1
        /\ stats.HitRatio.num * 10 = stats.HitRatio.den * 8

\* C9 as stated: with Redis as primary, N identical GETs after a clear and
\* within the ttl add one miss and N-1 hits; after five of them counted from
\* zero GetStats reports 4 hits, 1 miss and a hit ratio of 0.8.
C9_HitsAndMisses_AsStated == InRun => (Counted /\ Reported)

\* C9: the same, provided every request of the run got a response the
\* middleware stores (status in [200,300), body not empty) and none of the
\* cache's calls to the server failed.
C9_HitsAndMisses == (InRun /\ run.ok) => (Counted /\ Reported)

\* C9's case: GetStats after five such requests counted from zero
C9_Witness ==
    /\ InRun /\ run.ok
    /\ last.op = "GetStats"
    /\ run.n = 5 /\ run.h0 = 0 /\ run.m0 = 0
    /\ stats.Hits = 4

\* C10: when NewRedisCache fails the manager is still built, with useFallback
\* set and the in-memory store as primary and fallback; GetStats then reports
\* the in-memory cache type, and Set, Get, Delete, Clear and InvalidatePattern
\* return no error and do what the in-memory store does.
C10_ConstructionFailure ==
    /\ (last.op = "InitializeCache" /\ last.err # "nil") =>
          cacheManager.set /\ cacheManager.useFallback
    /\ (cacheManager.set /\ cacheManager.useFallback) =>
          /\ cacheManager.primary = "in_memory"
          /\ cacheManager.fallback = "in_memory"
          /\ last.op # "InitializeCache" => last.err = "nil"
          /\ \A net \in BOOLEAN :
                CMGetStats(cacheManager, World, net) =
                    [w |-> World, st |-> IMGetStats(items)]
          /\ IMGetStats(items).CacheType = "in_memory"
          /\ \A k \in Keys, pl \in Payloads, ttl \in TTLs, lag \in ServerLag, net \in BOOLEAN :
                LET r == CMSet(cacheManager, World, k, pl.Data, pl.Headers, ttl, now, lag, net)
                    l == IMSet(items, k, pl.Data, pl.Headers, ttl, now)
                IN  r = [w |-> [World EXCEPT !.items = l.items], err |-> "nil"]
          /\ \A k \in Keys, net \in Net2 :
                LET r == CMGet(cacheManager, World, k, now, net)
                    l == IMGet(items, k, now)
                IN  r = [w |-> World, found |-> l.found, item |-> l.item]
          /\ \A k \in Keys, net \in BOOLEAN :
                CMDelete(cacheManager, World, k, net) =
                    [w |-> [World EXCEPT !.items = IMDelete(items, k).items],
                     err |-> "nil"]
          /\ \A net \in Net2 :
                CMClear(cacheManager, World, net) =
                    [w |-> [World EXCEPT !.items = IMClear(items).items],
                     err |-> "nil"]
          /\ \A p \in Patterns, net \in Net2 :
                CMInvalidatePattern(cacheManager, World, p, net) =
                    [w |-> [World EXCEPT
                               !.items = IMInvalidatePattern(items, p).items],
                     err |-> "nil"]

\* C10's case: after a failed construction a Set was made and a Get found
\* the key
C10_Witness ==
    /\ cacheManager.useFallback
    /\ last.op = "Get" /\ last.found


\* the two configurations NewCacheManager builds
PrimaryAvailable ==
    /\ ~cacheManager.useFallback
    /\ cacheManager.primary = "redis"
    /\ cacheManager.fallback = "in_memory"

PrimaryUnavailable ==
    /\ cacheManager.useFallback
    /\ cacheManager.primary = "in_memory"
    /\ cacheManager.fallback = "in_memory"

\* C11: once built, the manager is in one of the two configurations
\* (useFallback false with Redis as primary and the in-memory store as
\* fallback, or useFallback true with the in-memory store as both), and no
\* call, failed server call or passing of time changes its configuration.
C11_ModeFixed ==
    /\ [](cacheManager.set => (PrimaryAvailable \/ PrimaryUnavailable))
    /\ [][cacheManager.set => cacheManager' = cacheManager]_vars

\* C11's case: a manager built with Redis as primary, still so after a call
\* whose server call failed
C11_Witness ==
    /\ PrimaryAvailable
    /\ last.op \in {"Delete", "Clear", "InvalidatePattern"}
    /\ last.err # "nil"

\* a Delete, Clear or InvalidatePattern was made in this step
Removes == last'.op \in {"Delete", "Clear", "InvalidatePattern"}

\* what the call of this step makes of the in-memory store, and of the Redis
\* keyspace when the server answers
LocalAfter ==
    IF last'.op = "Delete" THEN IMDelete(items, last'.key).items
    ELSE IF last'.op = "Clear" THEN IMClear(items).items
    ELSE IMInvalidatePattern(items, last'.key).items

RedisAfter ==
    IF last'.op = "Delete" THEN RCDelete(rdb, last'.key, TRUE).rdb
    ELSE IF last'.op = "Clear" THEN RCClear(rdb, <<TRUE, TRUE>>).rdb
    ELSE RCInvalidatePattern(rdb, last'.key, <<TRUE, TRUE>>).rdb

\* C12 as stated: Delete, Clear and InvalidatePattern are applied to the
\* primary, and to the fallback only when useFallback is true; with Redis as
\* primary they leave the in-memory store as it was.
C12_Removal_AsStated ==
    [][Removes =>
          /\ rdb' \in {rdb, RedisAfter}
          /\ cacheManager.primary = "redis" => items' = items]_vars

\* C12: Delete, Clear and InvalidatePattern are applied to the primary, and
\* with Redis as primary (useFallback false) also to the in-memory fallback,
\* whether or not the call to Redis succeeded; with the in-memory store as
\* primary they are applied to it once and Redis is not touched.
C12_Removal ==
    [][Removes =>
          /\ items' = LocalAfter
          /\ IF cacheManager.primary = "redis"
             THEN /\ rdb' \in {rdb, RedisAfter}
                  /\ last'.err = "nil" => rdb' = RedisAfter
             ELSE rdb' = rdb /\ last'.err = "nil"]_vars

\* C12's case: with Redis as primary, a removal whose call to Redis failed
\* took entries out of the in-memory fallback
C12_Witness ==
    /\ PrimaryAvailable
    /\ last.op \in {"Delete", "Clear", "InvalidatePattern"}
    /\ last.local
    /\ last.err # "nil"


\* the in-memory store with the item of this step's Set under its key
LocalWith(k) ==
    [x \in DOMAIN items \cup {k} |-> IF x = k THEN live'[k].item ELSE items[x]]

C14_PrimaryOnlyGet ==
    [][(last'.op = "Get" /\ cacheManager.primary = "redis") =>
          /\ items' = items
          /\ last'.found =>
                /\ Prefix \o last'.key \in DOMAIN rdb
                /\ ~After(now, JsonUnmarshal(rdb[Prefix \o last'.key].val)
                                  .item.ExpiresAt)]_vars

\* C14's case: with Redis as primary, a Get reported a miss for a key under
\* which the in-memory store holds an unexpired item
C14_Witness ==
    /\ PrimaryAvailable
    /\ last.op = "Get" /\ ~last.found
    /\ IMGet(items, last.key, now).found


\* a request was served in this step
ServedNow == resp'.n = resp.n + 1

\* the response is the one the handler wrote
Fresh(r) == r.ran /\ r.status = r.origin.status /\ r.body = r.origin.body

\* C15: a failing cache leaves the handler's response as it is: a request
\* whose Get fails is answered by the handler, a response the handler wrote
\* is delivered with its status and body also when the Set fails, and when
\* every call to the server fails every request is answered by the handler.
C15_FailOpen ==
    [][ServedNow =>
          /\ resp'.ran => Fresh(resp')
          /\ ~resp'.getOk => Fresh(resp')
          /\ (resp'.sets = 1 /\ ~resp'.setOk) => Fresh(resp')]_vars

\* C15's case: with Redis holding an entry for the request, the Get and the
\* Set both failed and the handler's 200 response was delivered
C15_Witness ==
    /\ PrimaryAvailable
    /\ resp.n = 2 /\ resp.hadEntry
    /\ ~resp.getOk /\ ~resp.setOk
    /\ resp.sets = 1
    /\ Fresh(resp) /\ resp.status = 200

\* the item the middleware stores for the response it has just delivered
Captured(r) == CacheItem(r.origin.body, r.headers, r.at + MwTTL)

\* the lookup of this step removed nothing, or the expired item it found
AfterLookup ==
    LET fk == Prefix \o resp'.key
    IN  \/ rdb' = rdb
        \/ /\ fk \in DOMAIN rdb
           /\ After(now, JsonUnmarshal(rdb[fk].val).item.ExpiresAt)
           /\ rdb' = Restrict(rdb, DOMAIN rdb \ {fk})

\* C16: after a miss the middleware calls Set, with the body and headers the
\* handler wrote and the configured ttl, exactly when the status is in
\* [200,300) and the body is not empty; otherwise nothing is stored: the
\* in-memory store is as it was and Redis is as the lookup left it.
C16_StoreOn2xx ==
    [][(ServedNow /\ resp'.gets = 1 /\ resp'.xcache # "HIT") =>
          /\ resp'.sets = 1 <=> (/\ resp'.origin.status \in 200..299
                                 /\ resp'.origin.body # <<>>)
          /\ resp'.sets = 1 =>
                IF cacheManager.primary = "redis" /\ resp'.setOk
                THEN /\ Prefix \o resp'.key \in DOMAIN rdb'
                     /\ JsonUnmarshal(rdb'[Prefix \o resp'.key].val).item
                           = Captured(resp')
                ELSE /\ resp'.key \in DOMAIN items'
                     /\ items'[resp'.key] = Captured(resp')
          /\ resp'.sets = 0 => (items' = items /\ AfterLookup)]_vars

\* C16's case: a miss answered with status 500 was not stored, and the entry
\* of an earlier request is still in the cache
C16_Witness ==
    /\ resp.n = 2
    /\ resp.gets = 1 /\ resp.sets = 0
    /\ resp.xcache = ""
    /\ resp.status = 500 /\ resp.body # <<>>
    /\ (DOMAIN rdb # {} \/ DOMAIN items # {})

\* the item the primary store holds under the key of this step's request
StoredItem ==
    IF cacheManager.primary = "redis"
    THEN JsonUnmarshal(rdb[Prefix \o resp'.key].val).item
    ELSE items[resp'.key]

\* C17: a hit answers with the stored headers, X-Cache: HIT and the stored
\* bytes as body, without running the handler and without a Set: the stores
\* are left as they were.
C17_HitShortCircuits ==
    [][(ServedNow /\ resp'.xcache = "HIT") =>
          /\ ~resp'.ran
          /\ resp'.sets = 0
          /\ resp'.body = StoredItem.Data
          /\ resp'.headers = StoredItem.Headers
          /\ items' = items /\ rdb' = rdb]_vars

\* C17's case: a hit served from the in-memory store with the headers of
\* the stored response
C17_Witness ==
    /\ PrimaryUnavailable
    /\ resp.n = 2
    /\ resp.xcache = "HIT"
    /\ ~resp.ran /\ resp.sets = 0
    /\ resp.body # <<>>
    /\ DOMAIN resp.headers # {}


\* the request of this step went to the handler without a lookup
Bypassed == resp'.gets = 0 /\ resp'.sets = 0 /\ resp'.xcache = "" /\ resp'.ran

\* the request of this step was looked up under its derived key
LookedUp ==
    /\ resp'.gets = 1
    /\ resp'.key = generateRedisCacheKey(
                       Request(resp'.method, resp'.path, resp'.query, resp'.ua))

\* C18 as stated: a GET bypasses the cache exactly when its path starts with
\* /admin or /auth; every other GET is looked up under its derived key.
C18_Excluded_AsStated ==
    [][(ServedNow /\ resp'.method = "GET") =>
          IF HasPrefix(resp'.path, Admin) \/ HasPrefix(resp'.path, Auth)
          THEN Bypassed ELSE LookedUp]_vars

\* C18: a GET bypasses the cache exactly when its path contains /admin or
\* /auth, at its start or anywhere after it; the query string is not looked
\* at.  Every other GET is looked up under its derived key.
C18_Excluded ==
    [][(ServedNow /\ resp'.method = "GET") =>
          IF Contains(resp'.path, Admin) \/ Contains(resp'.path, Auth)
          THEN Bypassed ELSE LookedUp]_vars

\* C18's case: a GET whose path holds /auth after its start went to the
\* handler without a lookup, while the cache holds entries
C18_Witness ==
    /\ resp.method = "GET"
    /\ Contains(resp.path, Auth) /\ ~HasPrefix(resp.path, Auth)
    /\ resp.gets = 0 /\ resp.xcache = "" /\ resp.ran
    /\ (DOMAIN rdb # {} \/ DOMAIN items # {})

\* C20: after InvalidatePostCache, InvalidatePageCache or
\* InvalidateMediaCache has returned nil, no request whose URL contains
\* "/posts", "/pages" or "/media" respectively finds a cached response,
\* URLs containing more than one of the three included.
C20_ResourceInvalidation ==
    \A tag \in {Posts, Pages, Media} :
        (last.op = "InvalidatePattern" /\ last.err = "nil"
            /\ last.key = Tail(tag)) =>
            \A req \in PathRequests :
                Contains(URLString(req.path, req.query), tag) =>
                    ~CMGet(cacheManager, World, generateRedisCacheKey(req),
                           now, <<TRUE, TRUE>>).found


\* C19: with instances sharing the Redis server, a GET that starts after a
\* write has committed and its invalidation has returned is answered from
\* the posts of that commit or a later one; no hit returns a body computed
\* before the commit.
C19_FreshAfterInvalidation ==
    \A i \in Instances :
        flight.get[i].pc = "served" =>
            flight.get[i].body[1] >= flight.get[i].floor


-----------------------------------------------------------------------------
(* The counters of the RedisCache *)

\* what the server holds under the key of the Get about to be made: nothing,
\* a value that does not decode, an item past its ExpiresAt, or a good item
Held(key) ==
    LET fk == Prefix \o key
    IN  IF fk \notin DOMAIN rdb THEN "absent"
        ELSE IF "raw" \in DOMAIN rdb[fk].val THEN "malformed"
        ELSE IF now > rdb[fk].val.expires THEN "expired"
        ELSE "good"

\* C21: every Get of the RedisCache changes exactly one counter by exactly
\* one: Hits when the GET call succeeds and the value decodes to an item that
\* is not expired, Misses when the key is absent, the call fails, the value is
\* malformed or the item is expired. No call other than Get and ResetStats
\* changes either counter, so Hits + Misses is the number of Gets made since
\* the last ResetStats.
C21_OneCounterPerGet ==
    /\ [](stats.Hits + stats.Misses = gets)
    /\ [][/\ last'.op = "Get" =>
               IF ~last'.failed /\ Held(last'.key) = "good"
               THEN /\ stats'.Hits = stats.Hits + 1
                    /\ stats'.Misses = stats.Misses
                    /\ last'.found
               ELSE /\ stats'.Misses = stats.Misses + 1
                    /\ stats'.Hits = stats.Hits
                    /\ ~last'.found
          /\ last'.op \notin {"Get", "ResetStats"} =>
               /\ stats'.Hits = stats.Hits
               /\ stats'.Misses = stats.Misses
          /\ last'.op = "ResetStats" =>
               stats'.Hits = 0 /\ stats'.Misses = 0]_vars

\* a hit and a miss have been counted, and the last Get missed on a value
\* that does not decode
C21_Witness ==
    /\ last.op = "Get"
    /\ ~last.found
    /\ ~last.failed
    /\ Held(last.key) = "malformed"
    /\ stats.Hits = 1
    /\ stats.Misses = 1
    /\ gets = 2


\* C22: on the RedisCache, a Get whose call to the server fails answers
\* "not found" and surfaces no error, while a Set, Delete, Clear or
\* InvalidatePattern with a failed call returns an error: a failure is never
\* reported as success.
C22_FailOpenFailLoud ==
    /\ (last.op = "Get" /\ last.failed) => (~last.found /\ last.err = "nil")
    /\ (last.op \in {"Set", "Delete", "Clear", "InvalidatePattern"}
          /\ last.failed) => last.err # "nil"

\* an InvalidatePattern whose KEYS call found keys and whose DEL call failed
C22_Witness ==
    /\ last.op = "InvalidatePattern"
    /\ last.failed
    /\ last.err = "failed to delete keys for pattern"
    /\ \E fk \in DOMAIN rdb :
          GlobMatch(Prefix \o <<"*">> \o last.key \o <<"*">>, fk)


\* C23: whatever Gets, Sets, Deletes, ResetStats and GetStats came before,
\* the stats GetStats returns on the RedisCache have HitRatio equal to
\* Hits / (Hits + Misses) when Hits + Misses > 0, and HitRatio 0 when
\* Hits + Misses = 0, as right after a ResetStats.
C23_HitRatio ==
    last.op = "GetStats" =>
        IF stats.Hits + stats.Misses > 0
        THEN stats.HitRatio.num * (stats.Hits + stats.Misses)
                 = stats.Hits * stats.HitRatio.den
        ELSE stats.HitRatio.num = 0

\* GetStats after one hit and two misses answers one third
C23_Witness ==
    /\ last.op = "GetStats"
    /\ stats.Hits = 1
    /\ stats.Misses = 2
    /\ stats.HitRatio = [num |-> 1, den |-> 3]


-----------------------------------------------------------------------------
(* The health check *)

\* hits / (hits + misses) < 0.3, the ratio being 0 when nothing was looked up
LowHitRatio == 10 * stats.Hits < 3 * (stats.Hits + stats.Misses)
                 \/ stats.Hits + stats.Misses = 0

\* C24, as stated: CacheHealth answers unhealthy exactly when the cache type
\* is not_initialized; otherwise degraded exactly when the hit ratio is below
\* 0.3 and at least 100 lookups were counted; otherwise healthy.
C24_Health_AsStated ==
    health # NoHealth =>
        health.status =
            IF ~cacheManager.set THEN "unhealthy"
            ELSE IF LowHitRatio /\ stats.Hits + stats.Misses >= 100
                 THEN "degraded"
            ELSE "healthy"

\* C24, amended: the same with "more than 100 lookups": at exactly 100
\* lookups the answer is healthy whatever the ratio.
C24_Health ==
    health # NoHealth =>
        /\ health.cache_type = "not_initialized" <=> ~cacheManager.set
        /\ health.status =
               IF ~cacheManager.set THEN "unhealthy"
               ELSE IF LowHitRatio /\ stats.Hits + stats.Misses > 100
                    THEN "degraded"
               ELSE "healthy"

\* a check made at 29 hits and 71 misses
C24_Witness ==
    /\ health # NoHealth
    /\ stats.Hits = 29
    /\ stats.Misses = 71
    /\ health.status = "healthy"
    /\ health.hit_ratio = [num |-> 29, den |-> 100]


-----------------------------------------------------------------------------
(* Before InitializeCache *)

\* C25: while no manager has been initialized, GetCacheStats returns cache
\* type not_initialized with zero counters, and ClearAllCache, InvalidateCache
\* and the wrappers InvalidatePostCache, InvalidatePageCache and
\* InvalidateMediaCache return an error; none of them creates a manager or
\* changes a store or a counter.
C25_NotInitialized ==
    [][(~cacheManager.set /\ last'.op # "InitializeCache") =>
          /\ cacheManager' = cacheManager
          /\ items' = items /\ rdb' = rdb /\ stats' = stats
          /\ last'.op \in {"GetStats", "Clear", "InvalidatePattern"}
          /\ last'.op = "GetStats" =>
                /\ last'.st.CacheType = "not_initialized"
                /\ last'.st.Hits = 0 /\ last'.st.Misses = 0
                /\ last'.st.KeyCount = 0 /\ last'.st.HitRatio.num = 0
          /\ last'.op \in {"Clear", "InvalidatePattern"} =>
                last'.err # "nil"]_vars

\* InvalidatePostCache has answered with an error and there is no manager
C25_Witness ==
    /\ ~cacheManager.set
    /\ last.op = "InvalidatePattern"
    /\ last.key = Tail(Posts)
    /\ last.err = ErrNotInitialized


-----------------------------------------------------------------------------
(* The InMemoryCache: its stats and its sweep *)

\* the keys for which Get would return an item now
LiveKeys == {k \in DOMAIN items : IMGet(items, k, now).found}

\* C26: GetStats of the InMemoryCache returns its cache type, Hits = Misses
\* = 0, HitRatio 0 and KeyCount equal to the number of keys for which Get
\* would return an item now, expired entries not yet swept left out; Get and
\* GetStats leave the store as it is.
C26_LocalStats ==
    /\ [](
          (last.op = "GetStats" /\ cacheManager.primary = "in_memory") =>
              /\ last.st.CacheType = "in_memory"
              /\ last.st.Hits = 0 /\ last.st.Misses = 0
              /\ last.st.HitRatio.num = 0
              /\ last.st.KeyCount = Cardinality(LiveKeys))
    /\ [][(last'.op \in {"Get", "GetStats"}
             /\ cacheManager.primary = "in_memory") => items' = items]_vars

\* C27: a pass of the sweep removes exactly the entries whose ExpiresAt is
\* past at the time of the pass and leaves every other entry as it was, so
\* for every key Get answers the same right before and right after the pass.
C27_SweepExact ==
    [][last'.op = "cleanup" =>
          /\ DOMAIN items' = {k \in DOMAIN items : ~(now > items[k].ExpiresAt)}
          /\ \A k \in DOMAIN items' : items'[k] = items[k]
          /\ \A k \in Keys : IMGet(items', k, now') = IMGet(items, k, now)]_vars

\* a pass has run that found an entry expiring at this very instant, which
\* Get still returns, and kept it
C27_Witness ==
    /\ last.op = "cleanup"
    /\ now > 0
    /\ \E k \in DOMAIN items : items[k].ExpiresAt = now


-----------------------------------------------------------------------------
(* The InMemoryCache under concurrent callers *)

\* g is between the grant of its lock and its unlock: it works on the map
Holding(g) == goroutines[g].pc \in {"in", "unlock"}

\* the writers of the entry map, and its readers
Writers == {"Set", "Delete", "Clear", "InvalidatePattern", "cleanup"}
Readers == {"Get", "GetStats"}

\* C28: a writer of the entry map (Set, Delete, Clear, InvalidatePattern or a
\* pass of the sweep) never works on the map while another writer or a reader
\* (Get, GetStats) does; only readers overlap.
C28_MutualExclusion ==
    \A g, h \in Goroutines :
        (g # h /\ Holding(g) /\ Holding(h)) =>
            /\ goroutines[g].op \in Readers
            /\ goroutines[h].op \in Readers

\* two readers work on the map together while the sweep has called Lock
C28_Witness ==
    /\ Holding(1) /\ Holding(2)
    /\ goroutines[1].op = "Get"
    /\ goroutines[2].op = "GetStats"
    /\ goroutines[Sweeper].pc = "wait"

\* C29: whatever the interleaving of Get, Set, Delete, Clear,
\* InvalidatePattern, GetStats and the sweep, every call that has started
\* gets its lock, releases it and returns, under fair scheduling: no
\* goroutine stays inside the cache for ever.
C29_NoDeadlock ==
    \A g \in Goroutines :
        (goroutines[g].pc # "idle") ~> (goroutines[g].pc = "idle")

\* a reader holds the lock, the sweep has called Lock and waits for it to
\* leave, and a second reader is kept out behind the sweep
C29_Witness ==
    /\ Holding(1)
    /\ goroutines[1].op \in Readers
    /\ mutex.writer = Sweeper
    /\ goroutines[Sweeper].pc = "wait"
    /\ goroutines[2].pc = "wait"
    /\ 2 \in mutex.blocked

\* C30: when several requests miss on the same key, each runs its handler
\* and each calls Set; the entry the store then holds is the item of the Set
\* applied last, data, headers and ExpiresAt together, never fields of
\* different Sets, and a Get racing them returns nothing or one of the items
\* written, whole.
C30_LastWriteWins ==
    /\ \A k \in DOMAIN items :
          k \in DOMAIN live /\ items[k] = live[k].item
    /\ \A g \in Callers :
          (goroutines[g].op = "Get" /\ goroutines[g].pc = "unlock"
              /\ goroutines[g].found) =>
              /\ goroutines[g].key \in DOMAIN live
              /\ goroutines[g].item \in live[goroutines[g].key].written

\* both requests missed, both have run their handler and stored its
\* response, and the entry is the one of the request that stored last
C30_Witness ==
    /\ \A g \in Callers : goroutines[g].pc = "idle" /\ goroutines[g].wrote
    /\ Cardinality(live[LocalKey].written) = 2
    /\ items[LocalKey] = CacheItem(BodyOf(1), HeadersOf(1), now + MwTTL)

-----------------------------------------------------------------------------
(* RedisCache.Get under concurrency *)

\* C31: the hit and miss counters of the Redis store never exceed the number
\* of Gets performed: at every moment Hits + Misses is at most the number of
\* Gets that have returned (the increments are unsynchronised, so the sum
\* may fall short of it, never pass it).
C31_CountersApproximate == stats.Hits + stats.Misses <= gets

\* two Gets that ran side by side have both returned and the counters grew
\* by one only: an update was lost
C31_Witness ==
    /\ gets = 2
    /\ stats.Hits + stats.Misses = 1
    /\ \A g \in Callers : goroutines[g].pc = "idle"

\* C38: the Delete a Get issues after it read an expired item never removes
\* an item that is not expired: whatever a ClientDel step takes from the
\* server was past its ExpiresAt.
C38_DeleteOnlyExpired ==
    [][\A g \in Callers :
          (goroutines[g].pc = "del" /\ goroutines'[g].pc = "load")
          => \A fk \in DOMAIN rdb \ DOMAIN rdb' :
                 now > JsonUnmarshal(rdb[fk].val).item.ExpiresAt]_vars

-----------------------------------------------------------------------------
(* Expired and malformed values on the read path of the RedisCache *)

\* C32: a Get of the RedisCache that reads an item past its ExpiresAt issues
\* a Delete of that key (the key is gone when the DEL goes through, and no
\* other key is touched) and answers "not found"; a Get that reads a value
\* that does not decode answers "not found", issues no Delete and leaves the
\* server's keys as they were; either way exactly one miss is counted.
C32_ExpiredAndMalformed ==
    [][(last'.op = "Get" /\ gets' = gets + 1 /\ ~last'.failed) =>
          LET fk == Prefix \o last'.key
              oneMiss == /\ ~last'.found
                         /\ stats'.Misses = stats.Misses + 1
                         /\ stats'.Hits = stats.Hits
          IN  /\ Held(last'.key) = "expired" =>
                   /\ oneMiss
                   /\ last'.del # ""
                   /\ rdb' = IF last'.del = "nil"
                             THEN Restrict(rdb, DOMAIN rdb \ {fk}) ELSE rdb
              /\ Held(last'.key) = "malformed" =>
                   /\ oneMiss
                   /\ last'.del = ""
                   /\ rdb' = rdb]_vars

\* a Get has just read an expired item and removed it, after an earlier Get
\* missed on a malformed value that is still on the server
C32_Witness ==
    /\ last.op = "Get"
    /\ ~last.found
    /\ last.del = "nil"
    /\ Prefix \o last.key \notin DOMAIN rdb
    /\ stats.Misses = 2
    /\ \E fk \in DOMAIN rdb : rdb[fk].val = Malformed

-----------------------------------------------------------------------------
(* The resource tag of a key *)

\* the digest of a served request, and the tags its URL calls for, in the
\* order the key derivation looks for them
DigestOf(r) ==
    Md5Hex(<<r.method, ":">> \o URLString(r.path, r.query) \o <<":">> \o r.ua)

TagsOf(r) ==
    SelectSeq(<<Posts, Pages, Media>>,
              LAMBDA tag : Contains(URLString(r.path, r.query), tag))

\* C33: the key of a request carries the tag of the first of "/posts",
\* "/pages", "/media" (in that order) that its URL contains, followed by ":"
\* and the digest; a URL that contains none of them has the bare digest for
\* its key.  A key so carries at most one tag.
C33_ResourceTag ==
    Keyed(resp) =>
        resp.key = IF TagsOf(resp) = <<>> THEN DigestOf(resp)
                   ELSE Tail(Head(TagsOf(resp))) \o <<":">> \o DigestOf(resp)

\* a request whose URL holds "/media" before "/posts" was keyed under posts
C33_Witness ==
    /\ Keyed(resp)
    /\ resp.path = Media \o Posts
    /\ TagsOf(resp) = <<Posts, Media>>
    /\ resp.key = Tail(Posts) \o <<":">> \o DigestOf(resp)

-----------------------------------------------------------------------------
(* The write handlers and their invalidation *)

\* C34: in every write handler the invalidation wrapper is invoked at most
\* once, only after the transaction has committed successfully and before
\* the success response is written: a handler that answered with its
\* success status has invoked it exactly once, a handler whose mutation or
\* commit failed has not invoked it, and the error of the invalidation does
\* not change the status of the response.
C34_InvalidateAfterCommit ==
    LET h == flight.handler
    IN  /\ h.invalidations <= 1
        /\ h.invalidations = 1 => h.committed
        /\ (h.pc = "done" /\ h.status \in {200, 201}) => h.invalidations = 1
        /\ (h.pc = "done" /\ h.status \notin {200, 201}) => h.invalidations = 0
        /\ (h.pc = "done" /\ h.invalidations = 1) => h.status = h.success

-----------------------------------------------------------------------------
(* RedisCaches sharing one server *)

\* the RedisCache a full key was written through: with the prefixes and keys
\* of the model no two RedisCaches write the same full key
WrittenThrough(fk) == {p \in Prefixes : \E key \in Keys : fk = p \o key}

\* C35: Clear and InvalidatePattern of a RedisCache with prefix P remove only
\* keys that were written through a RedisCache with prefix P: no key of a
\* RedisCache with another prefix on the same server is removed, a prefix
\* that begins with P included.
C35_NamespaceIsolation ==
    [][last'.op \in {"Clear", "InvalidatePattern"} =>
          \A fk \in DOMAIN rdb \ DOMAIN rdb' :
              WrittenThrough(fk) = {last'.prefix}]_vars

-----------------------------------------------------------------------------
(* The life of a cache item *)

\* the request of this step was served, and answered from the cache
RequestNow == last'.op = "Request" /\ run'.served = run.served + 1
HitNow == RequestNow /\ last'.found

\* the items a step stored or replaced: in the in-memory store and, decoded,
\* on the server
StoredNow ==
    {items'[k] : k \in {j \in DOMAIN items' :
                          j \notin DOMAIN items \/ items'[j] # items[j]}}
    \cup {JsonUnmarshal(rdb'[fk].val).item :
            fk \in {j \in DOMAIN rdb' :
                      j \notin DOMAIN rdb \/ rdb'[j].val # rdb[j].val}}

\* the item the manager answers the repeated request from
RepeatedItem ==
    LET key == generateRedisCacheKey(Repeated)
    IN  IF cacheManager.primary = "redis"
        THEN JsonUnmarshal(rdb[Prefix \o key].val).item
        ELSE items[key]

\* C36: a cache item is stored only by a request that missed, with an expiry
\* one ttl after that request, and is never changed afterwards: a request
\* answered from the cache leaves both stores as they were, and the item it
\* answers from is not past the expiry it was given when it was stored.  So
\* no entry is served later than one ttl after the miss that stored it.
C36_CreatedOnMissOnly ==
    [][/\ \A item \in StoredNow :
             /\ RequestNow /\ ~last'.found
             /\ item.ExpiresAt = now + MwTTL
       /\ HitNow => /\ items' = items /\ rdb' = rdb
                    /\ now <= RepeatedItem.ExpiresAt]_vars

\* a request was answered from the cache at the last instant of its item,
\* one ttl after the miss that stored it, and the item is still as stored
C36_Witness ==
    /\ last.op = "Request" /\ last.found
    /\ now = MwTTL
    /\ RepeatedItem.ExpiresAt = now
    /\ run.n >= 2

-----------------------------------------------------------------------------
(* Reading back what a Set of the manager reported stored *)

\* C37: after a Set of the manager returned nil, a Get of the same key whose
\* calls to the server go through, made before the item's ExpiresAt and with
\* no Delete, Clear or matching InvalidatePattern in between, returns the
\* item written: with either store as primary, and also when the write to
\* Redis failed and the in-memory fallback took the item.
C37_SetSuccessReadable ==
    \A k \in DOMAIN live :
        Unexpired(k) =>
            LET r == CMGet(cacheManager, World, k, now, <<TRUE, TRUE>>)
            IN  /\ r.found
                /\ r.item.Data = live[k].item.Data
                /\ r.item.ExpiresAt = live[k].item.ExpiresAt

-----------------------------------------------------------------------------
(* InvalidatePattern on the two kinds of store *)

\* an in-memory store holding the keys the server holds under the prefix
SameKeys == [k \in {Logical(fk) : fk \in DOMAIN rdb} |-> NoItem]

\* C39: for every pattern, the glob metacharacters included, an
\* InvalidatePattern of the RedisCache whose calls go through leaves the keys
\* that InvalidatePattern of the InMemoryCache leaves in a store holding the
\* same keys: those that do not contain the pattern as a substring.
C39_SameInvalidation ==
    [][(last'.op = "InvalidatePattern" /\ ~last'.failed) =>
          {Logical(fk) : fk \in DOMAIN rdb'}
              = DOMAIN IMInvalidatePattern(SameKeys, last'.key).items]_vars

-----------------------------------------------------------------------------
(* The status of a response served from the cache *)

\* C40: a request answered from the cache right after the same request was
\* answered by the handler and stored has the status the handler gave, for
\* every status in [200,300) the handler answers with a body.
C40_HitKeepsStatus ==
    [][(Consecutive /\ SameRequest /\ resp.xcache = "MISS"
          /\ resp'.xcache = "HIT") =>
          resp'.status = resp.status]_vars

====
